---- MODULE Spec2Model ----
(***************************************************************************)
(* Model of the livestock-settlement extraction engine                     *)
(* (src/src/parser.py, src/src/rules.py, src/src/processor.py).            *)
(*                                                                         *)
(* Text is modelled at two granularities, following what each function     *)
(* reads:                                                                  *)
(*   - normalize_text and the keyword functions of rules.py work on        *)
(*     sequences of characters (one-character strings), with the regular   *)
(*     expressions and the `in` operator computed position by position;    *)
(*   - the line-item extractors work on lines of whitespace-separated      *)
(*     tokens (words, integers, monetary amounts, unit tokens, markers).   *)
(* Monetary amounts are integers in cents, VAT rates in hundredths of a    *)
(* percent point (10.50 -> 1050).                                          *)
(***************************************************************************)
EXTENDS Integers, Sequences, FiniteSets, TLC

VARIABLES
    normTxt,     \* normalize_text: the current text (sequence of characters)
    normPrev,    \* normalize_text: the text before the last call
    normCalls,   \* normalize_text: number of calls applied so far
    condRaw,     \* Party.cond_iva_raw: the raw VAT-condition text (characters)
    condCode,    \* Party.cond_iva: the abbreviated code, once computed
    condPc,      \* "start" before condicion_iva_abreviar is called, "done" after
    ajTexto,     \* the document text given to detectar_ajuste (characters)
    ajuste,      \* the Ajuste returned by detectar_ajuste
    ajPc,        \* "start" before detectar_ajuste is called, "done" after
    bDoc,        \* build_outputs: the ParsedDoc d of the batch
    bRole,       \* build_outputs: roles[d.filename]
    s_m,         \* build_outputs: sign of the amounts of d
    s_h,         \* build_outputs: sign of head count and kilos of d
    ventas_rows, \* build_outputs: summary rows of the sales
    compras_rows,\* build_outputs: summary rows of the purchases
    libro_ventas_rows, \* build_outputs: rows of the sales VAT book
    bPc,         \* "start" before build_outputs runs, "done" after
    pdf,         \* parse_pdf: the document at pdf_path (pages of tables, text)
    doc,         \* parse_pdf: the ParsedDoc returned (its items)
    tablaItems,  \* parse_pdf: what parse_items_from_pdf returned
    textoItems,  \* parse_pdf: what parse_items returned, when it was called
    pPc,         \* "start" before parse_pdf runs, "done" or "raised" after
    uploads,     \* _parse_uploaded: the uploaded files with their role label
    upIdx,       \* _parse_uploaded: number of files the loop has read
    docs,        \* app.py: the list docs
    roles,       \* app.py: the dict roles, None for a missing key
    errores,     \* app.py: the file names reported with st.error
    mLines,      \* parse_items: the list data_lines
    mIdx,        \* parse_items: the index i of the merge loop, counted from 1
    mRows,       \* parse_items: the list merged
    mPc          \* "loop" while the merge loop runs, "done" after it

normVars == <<normTxt, normPrev, normCalls>>
condVars == <<condRaw, condCode, condPc>>
ajVars == <<ajTexto, ajuste, ajPc>>

buildVars == <<bDoc, bRole, s_m, s_h, ventas_rows, compras_rows, libro_ventas_rows, bPc>>

itemVars == <<pdf, doc, tablaItems, textoItems, pPc>>

batchVars == <<uploads, upIdx, docs, roles, errores>>

mergeVars == <<mLines, mIdx, mRows, mPc>>

vars == <<normVars, condVars, ajVars, buildVars, itemVars, batchVars, mergeVars>>

\* Python's None
None == "None"

\* Optional[float]: an amount or a rate that may be None
NoNumber == [some |-> FALSE, v |-> 0]
Some(v) == [some |-> TRUE, v |-> v]

\* What a strategy returned, and whether it was called at all
NotCalled == [called |-> FALSE, items |-> <<>>]
Returned(items) == [called |-> TRUE, items |-> items]

\* No ParsedDoc yet
NoDoc == [returned |-> FALSE, items |-> <<>>]

\* The document at pdf_path as pdfplumber sees it: its file name, whether
\* pdfplumber.open and extract_text succeed on it (readable), whether
\* extract_tables succeeds (tables_ok), the tables of each page, and the
\* text extract_full_text returns.
Pdf(name, readable, tables_ok, pages, text) ==
    [name |-> name, readable |-> readable, tables_ok |-> tables_ok,
     pages |-> pages, text |-> text]

\* The line-item state before parse_pdf is involved
ItemsIdle ==
    /\ pdf = Pdf("", FALSE, TRUE, <<>>, <<>>)
    /\ doc = NoDoc
    /\ tablaItems = NotCalled
    /\ textoItems = NotCalled
    /\ pPc = "idle"

\* The batch state before any file is uploaded
BatchIdle ==
    /\ uploads = <<>>
    /\ upIdx = 0
    /\ docs = <<>>
    /\ roles = <<>>
    /\ errores = <<>>

MergeIdle == mLines = <<>> /\ mIdx = 0 /\ mRows = <<>> /\ mPc = "idle"

\* The parts of the state a specification does not exercise stay idle.
NormIdle == normTxt = <<>> /\ normPrev = <<>> /\ normCalls = 0
CondIdle == condRaw = <<>> /\ condCode = None /\ condPc = "idle"
AjIdle == ajTexto = <<>> /\ ajuste = None /\ ajPc = "idle"
BuildIdle ==
    /\ bDoc = None
    /\ bRole = None
    /\ s_m = 1
    /\ s_h = 1
    /\ ventas_rows = <<>>
    /\ compras_rows = <<>>
    /\ libro_ventas_rows = <<>>
    /\ bPc = "idle"

(***************************************************************************)
(* Characters and character classes of Python's re module.                 *)
(***************************************************************************)
NL == "\n"
TAB == "\t"

Digits == {"0", "1", "2", "3", "4", "5", "6", "7", "8", "9"}

\* the class \s, restricted to the whitespace the extracted text holds
SpaceChars == {" ", TAB, NL}

\* the class [ \t]
BlankChars == {" ", TAB}

\* the class [\d,]
DigitOrComma == Digits \cup {","}

Letters ==
    {"A", "B", "C", "D", "E", "F", "G", "H", "I", "J", "K", "L", "M", "N", "O",
     "P", "Q", "R", "S", "T", "U", "V", "W", "X", "Y", "Z",
     "a", "b", "c", "d", "e", "f", "g", "h", "i", "j", "k", "l", "m", "n", "o",
     "p", "q", "r", "s", "t", "u", "v", "w", "x", "y", "z",
     "Á", "É", "Í", "Ó", "Ú", "Ñ", "á", "é", "í", "ó", "ú", "ñ"}

\* the class \w
WordChars == Digits \cup Letters \cup {"_"}

\* The first index j >= i of t whose character is outside class S
\* (Len(t) + 1 when the run reaches the end of t): where a greedy S* stops.
EndOfRun(t, i, S) ==
    CHOOSE j \in i..(Len(t) + 1) :
        /\ \A k \in i..(j - 1) : t[k] \in S
        /\ (j = Len(t) + 1 \/ t[j] \notin S)

\* \b after the character at index e - 1, which is a word character:
\* the end of the text or a non-word character follows.
BoundaryAt(t, e) == e > Len(t) \/ t[e] \notin WordChars

Slice(t, a, b) == IF a > b THEN <<>> ELSE SubSeq(t, a, b)

(***************************************************************************)
(* normalize_text, parser.py:11-24.                                        *)
(***************************************************************************)

\* A match of (\d[\d,]*\.)\s*\n\s*(\d{1,3})\b starting exactly at index s:
\* <<d, w, e>> with d the index of the ".", w the first digit of group 2
\* and e the index after the match; <<>> when there is no match at s.
BrokenDecimalsAt(t, s) ==
    IF s > Len(t) \/ t[s] \notin Digits THEN <<>>
    ELSE LET d == EndOfRun(t, s + 1, DigitOrComma)
         IN  IF d > Len(t) \/ t[d] # "." THEN <<>>
             ELSE LET w == EndOfRun(t, d + 1, SpaceChars)
                      e == EndOfRun(t, w, Digits)
                  IN  IF /\ \E k \in (d + 1)..(w - 1) : t[k] = NL
                         /\ e - w >= 1
                         /\ e - w <= 3
                         /\ BoundaryAt(t, e)
                      THEN <<d, w, e>>
                      ELSE <<>>

\* A match of (\d[\d,]*\.\d)\s*\n\s*(\d)\b starting exactly at index s:
\* <<d, w, e>> with d the index of the decimal digit that ends group 1.
BrokenLastDigitAt(t, s) ==
    IF s > Len(t) \/ t[s] \notin Digits THEN <<>>
    ELSE LET p == EndOfRun(t, s + 1, DigitOrComma)
         IN  IF p + 1 > Len(t) \/ t[p] # "." \/ t[p + 1] \notin Digits THEN <<>>
             ELSE LET d == p + 1
                      w == EndOfRun(t, d + 1, SpaceChars)
                  IN  IF /\ \E k \in (d + 1)..(w - 1) : t[k] = NL
                         /\ w <= Len(t)
                         /\ t[w] \in Digits
                         /\ BoundaryAt(t, w + 1)
                      THEN <<d, w, w + 1>>
                      ELSE <<>>

\* re.sub(r"(\d[\d,]*\.)\s*\n\s*(\d{1,3})\b", r"\1\2", t) from index p on:
\* leftmost matches, left to right, the search resuming after each match.
RECURSIVE JoinBrokenDecimals(_, _)
JoinBrokenDecimals(t, p) ==
    IF p > Len(t) THEN <<>>
    ELSE LET m == BrokenDecimalsAt(t, p)
         IN  IF m = <<>>
             THEN <<t[p]>> \o JoinBrokenDecimals(t, p + 1)
             ELSE Slice(t, p, m[1]) \o Slice(t, m[2], m[3] - 1)
                      \o JoinBrokenDecimals(t, m[3])

\* re.sub(r"(\d[\d,]*\.\d)\s*\n\s*(\d)\b", r"\1\2", t) from index p on.
RECURSIVE JoinBrokenLastDigit(_, _)
JoinBrokenLastDigit(t, p) ==
    IF p > Len(t) THEN <<>>
    ELSE LET m == BrokenLastDigitAt(t, p)
         IN  IF m = <<>>
             THEN <<t[p]>> \o JoinBrokenLastDigit(t, p + 1)
             ELSE Slice(t, p, m[1]) \o Slice(t, m[2], m[3] - 1)
                      \o JoinBrokenLastDigit(t, m[3])

\* re.sub(r"[ \t]+", " ", t) from index p on.
RECURSIVE CollapseBlanks(_, _)
CollapseBlanks(t, p) ==
    IF p > Len(t) THEN <<>>
    ELSE IF t[p] \in BlankChars
         THEN <<" ">> \o CollapseBlanks(t, EndOfRun(t, p, BlankChars))
         ELSE <<t[p]>> \o CollapseBlanks(t, p + 1)

normalize_text(txt) ==
    IF txt = <<>> THEN <<>>
    ELSE LET t1 == JoinBrokenDecimals(txt, 1)
             t2 == JoinBrokenLastDigit(t1, 1)
         IN  CollapseBlanks(t2, 1)

(***************************************************************************)
(* Raw texts given to normalize_text: concatenations of at most            *)
(* MaxFragments fragments of extracted text.                               *)
(***************************************************************************)
MaxFragments == 5

MaxNormCalls == 2

Fragments ==
    { <<"1">>, <<"2", ".">>, <<NL>>, <<" ">>, <<TAB>>, <<"a">>, <<",">> }

RECURSIVE Flatten(_)
Flatten(ss) == IF ss = <<>> THEN <<>> ELSE Head(ss) \o Flatten(Tail(ss))

RawTexts ==
    { Flatten(fs) : fs \in UNION { [1..n -> Fragments] : n \in 0..MaxFragments } }

NormInit ==
    /\ normTxt \in RawTexts
    /\ normPrev = <<>>
    /\ normCalls = 0
    /\ CondIdle
    /\ AjIdle
    /\ BuildIdle
    /\ ItemsIdle
    /\ BatchIdle
    /\ MergeIdle

\* One call of normalize_text on the current text (extract_full_text calls
\* it on the joined pages; a caller may call it again on the result).
Normalize ==
    /\ normCalls < MaxNormCalls
    /\ normPrev' = normTxt
    /\ normTxt' = normalize_text(normTxt)
    /\ normCalls' = normCalls + 1
    /\ UNCHANGED <<condVars, ajVars, buildVars, itemVars, batchVars, mergeVars>>

NormNext == Normalize

SpecNorm == NormInit /\ [][NormNext]_vars

(***************************************************************************)
(* C1: normalize_text is idempotent: a second call on an already           *)
(* normalized text returns it unchanged.                                   *)
(***************************************************************************)
C1_NormalizeIdempotent == normCalls >= 2 => normTxt = normPrev

(***************************************************************************)
(* Keyword search of rules.py: str.upper() and the `in` operator.          *)
(***************************************************************************)
LowerLetters ==
    <<"a", "b", "c", "d", "e", "f", "g", "h", "i", "j", "k", "l", "m", "n", "o",
      "p", "q", "r", "s", "t", "u", "v", "w", "x", "y", "z",
      "á", "é", "í", "ó", "ú", "ñ">>

UpperLetters ==
    <<"A", "B", "C", "D", "E", "F", "G", "H", "I", "J", "K", "L", "M", "N", "O",
      "P", "Q", "R", "S", "T", "U", "V", "W", "X", "Y", "Z",
      "Á", "É", "Í", "Ó", "Ú", "Ñ">>

UpperChar(c) ==
    IF \E i \in 1..Len(LowerLetters) : LowerLetters[i] = c
    THEN UpperLetters[CHOOSE i \in 1..Len(LowerLetters) : LowerLetters[i] = c]
    ELSE c

\* str.upper()
Upper(t) == [i \in 1..Len(t) |-> UpperChar(t[i])]

\* pat in t
Contains(t, pat) ==
    \E i \in 1..(Len(t) - Len(pat) + 1) : SubSeq(t, i, i + Len(pat) - 1) = pat

\* " ".join(ws)
RECURSIVE JoinWords(_)
JoinWords(ws) ==
    IF ws = <<>> THEN <<>>
    ELSE IF Len(ws) = 1 THEN ws[1]
    ELSE ws[1] \o <<" ">> \o JoinWords(Tail(ws))

WordTexts(vocabulary, n) ==
    { JoinWords(ws) : ws \in UNION { [1..k -> vocabulary] : k \in 0..n } }

(***************************************************************************)
(* condicion_iva_abreviar, rules.py:101-112.                               *)
(***************************************************************************)
K_MONOTRIB == <<"M", "O", "N", "O", "T", "R", "I", "B">>
K_EXENT == <<"E", "X", "E", "N", "T">>
K_RESPONSABLE == <<"R", "E", "S", "P", "O", "N", "S", "A", "B", "L", "E">>
K_INSCRIP == <<"I", "N", "S", "C", "R", "I", "P">>
K_IVA == <<"I", "V", "A">>
K_RESP == <<"R", "E", "S", "P">>

\* rules.py without the fallback of lines 109-111
condicion_iva_abreviar_sin_fallback(texto) ==
    LET t == Upper(texto)
    IN  IF Contains(t, K_MONOTRIB) THEN "MT"
        ELSE IF Contains(t, K_EXENT) THEN "EX"
        ELSE IF Contains(t, K_RESPONSABLE) /\ Contains(t, K_INSCRIP) THEN "RI"
        ELSE ""

condicion_iva_abreviar(texto) ==
    LET t == Upper(texto)
    IN  IF Contains(t, K_MONOTRIB) THEN "MT"
        ELSE IF Contains(t, K_EXENT) THEN "EX"
        ELSE IF Contains(t, K_RESPONSABLE) /\ Contains(t, K_INSCRIP) THEN "RI"
        ELSE IF Contains(t, K_IVA) /\ Contains(t, K_RESP) THEN "RI"
        ELSE ""

\* Raw VAT-condition texts: at most MaxCondWords words, one space apart.
MaxCondWords == 3

CondWords ==
    { <<"M", "o", "n", "o", "t", "r", "i", "b", "u", "t", "o">>,
      <<"M", "O", "N", "O", "T", "R", "I", "B", "U", "T", "I", "S", "T", "A">>,
      <<"E", "x", "e", "n", "t", "o">>,
      <<"R", "e", "s", "p", "o", "n", "s", "a", "b", "l", "e">>,
      <<"I", "n", "s", "c", "r", "i", "p", "t", "o">>,
      <<"I", "V", "A">>,
      <<"R", "e", "s", "p", ".">>,
      <<"F", "i", "n", "a", "l">> }

CondInit ==
    /\ condRaw \in WordTexts(CondWords, MaxCondWords)
    /\ condCode = None
    /\ condPc = "start"
    /\ NormIdle
    /\ AjIdle
    /\ BuildIdle
    /\ ItemsIdle
    /\ BatchIdle
    /\ MergeIdle

\* parse_parties: party.cond_iva = condicion_iva_abreviar(party.cond_iva_raw)
AbreviarCondicion ==
    /\ condPc = "start"
    /\ condCode' = condicion_iva_abreviar(condRaw)
    /\ condPc' = "done"
    /\ UNCHANGED <<condRaw, normVars, ajVars, buildVars, itemVars, batchVars, mergeVars>>

CondNext == AbreviarCondicion

SpecCond == CondInit /\ [][CondNext]_vars

K_MONOTRIBUTO == <<"M", "O", "N", "O", "T", "R", "I", "B", "U", "T", "O">>
K_EXENTO == <<"E", "X", "E", "N", "T", "O">>
K_INSCRIPTO == <<"I", "N", "S", "C", "R", "I", "P", "T", "O">>

HasMonotributo == Contains(Upper(condRaw), K_MONOTRIBUTO)
HasExento == Contains(Upper(condRaw), K_EXENTO)
HasResponsableInscripto ==
    Contains(Upper(condRaw), K_RESPONSABLE) /\ Contains(Upper(condRaw), K_INSCRIPTO)

(***************************************************************************)
(* C3 as claimed: text containing "Monotributo" gives MT, text containing  *)
(* "Exento" gives EX, text containing "Responsable" and "Inscripto" gives  *)
(* RI (read in this order of precedence), and text containing none of      *)
(* these gives the empty string.                                           *)
(***************************************************************************)
C3_AsClaimed ==
    condPc = "done" =>
        /\ HasMonotributo => condCode = "MT"
        /\ (HasExento /\ ~HasMonotributo) => condCode = "EX"
        /\ (HasResponsableInscripto /\ ~HasExento /\ ~HasMonotributo)
               => condCode = "RI"
        /\ (~HasMonotributo /\ ~HasExento /\ ~HasResponsableInscripto)
               => condCode = ""

(***************************************************************************)
(* C3 amended: on the upper-cased text, in this order: the stem MONOTRIB   *)
(* gives MT; else the stem EXENT gives EX; else RESPONSABLE with INSCRIP,  *)
(* or IVA with RESP, gives RI; only text with none of these gives the      *)
(* empty string.                                                           *)
(***************************************************************************)
C3_CondicionIvaAbreviar ==
    condPc = "done" =>
        LET t == Upper(condRaw)
            mono == Contains(t, K_MONOTRIB)
            exen == Contains(t, K_EXENT)
            insc == Contains(t, K_RESPONSABLE) /\ Contains(t, K_INSCRIP)
            resp == Contains(t, K_IVA) /\ Contains(t, K_RESP)
        IN  /\ condCode \in {"MT", "EX", "RI", ""}
            /\ condCode = "MT" <=> mono
            /\ condCode = "EX" <=> (exen /\ ~mono)
            /\ condCode = "RI" <=> ((insc \/ resp) /\ ~exen /\ ~mono)

\* The abbreviated "IVA Resp." reaches the fallback and is mapped to RI.
C3_Witness ==
    /\ condPc = "done"
    /\ condCode = "RI"
    /\ ~HasResponsableInscripto
    /\ Contains(Upper(condRaw), K_IVA)

(***************************************************************************)
(* Ajuste, rules.py:11-29.                                                 *)
(***************************************************************************)
Sentidos == {None, "CREDITO", "DEBITO"}
Tipos == {None, "FISICO", "MONETARIO"}

Ajuste(es_ajuste, sentido, tipo) ==
    [es_ajuste |-> es_ajuste, sentido |-> sentido, tipo |-> tipo]

Ajustes == [es_ajuste : BOOLEAN, sentido : Sentidos, tipo : Tipos]

\* signo_montos that negates every adjustment, whatever its direction
signo_montos_sin_sentido(a) == IF ~a.es_ajuste THEN 1 ELSE -1

signo_montos(a) ==
    IF ~a.es_ajuste THEN 1
    ELSE IF a.sentido = "CREDITO" THEN -1 ELSE 1

afecta_cabezas_kilos(a) == a.es_ajuste /\ a.tipo = "FISICO"

(***************************************************************************)
(* detectar_ajuste, rules.py:32-51.                                        *)
(***************************************************************************)
K_AJUSTE == <<"A", "J", "U", "S", "T", "E">>
K_CREDITO_ACENTO == <<"C", "R", "É", "D", "I", "T", "O">>
K_CREDITO == <<"C", "R", "E", "D", "I", "T", "O">>
K_DEBITO_ACENTO == <<"D", "É", "B", "I", "T", "O">>
K_DEBITO == <<"D", "E", "B", "I", "T", "O">>
K_AJUSTE_FISICO_ACENTO ==
    <<"A", "J", "U", "S", "T", "E", " ", "F", "Í", "S", "I", "C", "O">>
K_AJUSTE_FISICO ==
    <<"A", "J", "U", "S", "T", "E", " ", "F", "I", "S", "I", "C", "O">>
K_AJUSTE_FINANCIERO ==
    <<"A", "J", "U", "S", "T", "E", " ", "F", "I", "N", "A", "N", "C", "I", "E", "R", "O">>
K_AJUSTE_MONETARIO ==
    <<"A", "J", "U", "S", "T", "E", " ", "M", "O", "N", "E", "T", "A", "R", "I", "O">>

HasCredito(t) == Contains(t, K_CREDITO_ACENTO) \/ Contains(t, K_CREDITO)
HasDebito(t) == Contains(t, K_DEBITO_ACENTO) \/ Contains(t, K_DEBITO)
HasFisico(t) == Contains(t, K_AJUSTE_FISICO_ACENTO) \/ Contains(t, K_AJUSTE_FISICO)
HasMonetario(t) ==
    Contains(t, K_AJUSTE_FINANCIERO) \/ Contains(t, K_AJUSTE_MONETARIO)

DetectarSentido(t) ==
    IF HasCredito(t) THEN "CREDITO"
    ELSE IF HasDebito(t) THEN "DEBITO"
    ELSE None

\* the two branches of the `tipo` test taken in the other order
DetectarTipo_monetario_primero(t) ==
    IF HasMonetario(t) THEN "MONETARIO"
    ELSE IF HasFisico(t) THEN "FISICO"
    ELSE None

DetectarTipo(t) ==
    IF HasFisico(t) THEN "FISICO"
    ELSE IF HasMonetario(t) THEN "MONETARIO"
    ELSE None

\* detectar_ajuste without the early return of lines 34-35
detectar_ajuste_sin_retorno(texto) ==
    LET t == Upper(texto)
    IN  Ajuste(Contains(t, K_AJUSTE), DetectarSentido(t), DetectarTipo(t))

detectar_ajuste(texto) ==
    LET t == Upper(texto)
    IN  IF ~Contains(t, K_AJUSTE) THEN Ajuste(FALSE, None, None)
        ELSE Ajuste(TRUE, DetectarSentido(t), DetectarTipo(t))

\* Document texts: at most MaxAjusteWords words or phrases, one space apart.
MaxAjusteWords == 3

AjusteWords ==
    { <<"A", "J", "U", "S", "T", "E">>,
      <<"A", "j", "u", "s", "t", "e", " ", "f", "í", "s", "i", "c", "o">>,
      <<"A", "J", "U", "S", "T", "E", " ", "F", "Í", "S", "I", "C", "O">>,
      <<"A", "J", "U", "S", "T", "E", " ", "F", "I", "N", "A", "N", "C", "I", "E", "R", "O">>,
      <<"A", "J", "U", "S", "T", "E", " ", "M", "O", "N", "E", "T", "A", "R", "I", "O">>,
      <<"F", "Í", "S", "I", "C", "O">>,
      <<"C", "R", "É", "D", "I", "T", "O">>,
      <<"c", "r", "e", "d", "i", "t", "o">>,
      <<"D", "É", "B", "I", "T", "O">>,
      <<"D", "E", "B", "I", "T", "O">>,
      <<"N", "O", "T", "A">> }

AjInit ==
    /\ ajTexto \in WordTexts(AjusteWords, MaxAjusteWords)
    /\ ajuste = None
    /\ ajPc = "start"
    /\ NormIdle
    /\ CondIdle
    /\ BuildIdle
    /\ ItemsIdle
    /\ BatchIdle
    /\ MergeIdle

\* parse_pdf: ajuste = detectar_ajuste(text)
DetectarAjuste ==
    /\ ajPc = "start"
    /\ ajuste' = detectar_ajuste(ajTexto)
    /\ ajPc' = "done"
    /\ UNCHANGED <<ajTexto, normVars, condVars, buildVars, itemVars, batchVars, mergeVars>>

AjNext == DetectarAjuste

SpecAjuste == AjInit /\ [][AjNext]_vars

(***************************************************************************)
(* C9: when the upper-cased text does not contain "AJUSTE", detectar_ajuste *)
(* returns is-adjustment = false with direction and kind unset, whatever   *)
(* credit or debit keywords the text holds.                                *)
(***************************************************************************)
C9_NoAjusteKeyword ==
    (ajPc = "done" /\ ~Contains(Upper(ajTexto), K_AJUSTE)) =>
        /\ ajuste.es_ajuste = FALSE
        /\ ajuste.sentido = None
        /\ ajuste.tipo = None

\* A text with a credit keyword and no "AJUSTE" has been classified.
C9_Witness ==
    /\ ajPc = "done"
    /\ ~Contains(Upper(ajTexto), K_AJUSTE)
    /\ HasCredito(Upper(ajTexto))
    /\ ajuste.es_ajuste = FALSE

(***************************************************************************)
(* C10: for text with the adjustment keyword, direction is credit when a   *)
(* credit keyword is present, debit when only a debit keyword is present,  *)
(* unset when neither is; kind is physical when "AJUSTE FÍSICO/FISICO" is  *)
(* present, monetary when only "AJUSTE FINANCIERO/MONETARIO" is, unset     *)
(* otherwise; "AJUSTE FÍSICO" with "CRÉDITO" gives (true, credit,          *)
(* physical), sign multiplier -1 and affects-physical-quantities true.     *)
(***************************************************************************)
C10_SentidoYTipo ==
    (ajPc = "done" /\ Contains(Upper(ajTexto), K_AJUSTE)) =>
        LET t == Upper(ajTexto)
            cred == Contains(t, K_CREDITO_ACENTO) \/ Contains(t, K_CREDITO)
            deb == Contains(t, K_DEBITO_ACENTO) \/ Contains(t, K_DEBITO)
            fis == Contains(t, K_AJUSTE_FISICO_ACENTO) \/ Contains(t, K_AJUSTE_FISICO)
            mon == Contains(t, K_AJUSTE_FINANCIERO) \/ Contains(t, K_AJUSTE_MONETARIO)
        IN  /\ ajuste.es_ajuste = TRUE
            /\ ajuste.sentido = "CREDITO" <=> cred
            /\ ajuste.sentido = "DEBITO" <=> (deb /\ ~cred)
            /\ ajuste.sentido = None <=> (~deb /\ ~cred)
            /\ ajuste.tipo = "FISICO" <=> fis
            /\ ajuste.tipo = "MONETARIO" <=> (mon /\ ~fis)
            /\ ajuste.tipo = None <=> (~mon /\ ~fis)
            /\ (Contains(t, K_AJUSTE_FISICO_ACENTO) /\ Contains(t, K_CREDITO_ACENTO)) =>
                   /\ ajuste = Ajuste(TRUE, "CREDITO", "FISICO")
                   /\ signo_montos(ajuste) = -1
                   /\ afecta_cabezas_kilos(ajuste) = TRUE

\* The scenario text "AJUSTE FÍSICO CRÉDITO" has been classified.
C10_Witness ==
    /\ ajPc = "done"
    /\ Contains(ajTexto, K_AJUSTE_FISICO_ACENTO)
    /\ Contains(ajTexto, K_CREDITO_ACENTO)
    /\ ajuste.tipo = "FISICO"

(***************************************************************************)
(* ItemHacienda, parser.py:86-95.  Amounts in cents, iva_pct in hundredths *)
(* of a percent point; NoNumber for the optional fields left unset.        *)
(***************************************************************************)
ItemHacienda(categoria, cabezas, kilos, um, precio, bruto, iva_pct, iva_importe) ==
    [categoria |-> categoria, cabezas |-> cabezas, kilos |-> kilos, um |-> um,
     precio |-> precio, bruto |-> bruto, iva_pct |-> iva_pct,
     iva_importe |-> iva_importe]

(***************************************************************************)
(* movimiento_por_regla, rules.py:54-72.                                   *)
(***************************************************************************)
movimiento_por_regla(cod_arca, role) ==
    IF cod_arca \in {186, 188}
    THEN (IF role = "EMISOR" THEN "COMPRA" ELSE "VENTA")
    ELSE IF cod_arca = 180
    THEN (IF role = "RECEPTOR" THEN "VENTA" ELSE "NEUTRO")
    ELSE IF cod_arca \in {183, 185}
    THEN (IF role = "RECEPTOR" THEN "COMPRA" ELSE "NEUTRO")
    ELSE IF cod_arca \in {190, 191}
    THEN (IF role = "EMISOR" THEN "VENTA" ELSE "COMPRA")
    ELSE "NEUTRO"

(***************************************************************************)
(* build_outputs, processor.py:83-136: the signs and the summary row of a  *)
(* document.                                                               *)
(***************************************************************************)
RECURSIVE SumCabezas(_)
SumCabezas(items) ==
    IF items = <<>> THEN 0 ELSE Head(items).cabezas + SumCabezas(Tail(items))

RECURSIVE SumKilos(_)
SumKilos(items) ==
    IF items = <<>> THEN 0 ELSE Head(items).kilos + SumKilos(Tail(items))

\* s_h taken from s_m whatever the kind of the adjustment
SignoHacienda_siempre_s_m(a) == signo_montos(a)

\* processor.py:91
SignoHacienda(a) == IF afecta_cabezas_kilos(a) THEN signo_montos(a) ELSE 1

\* processor.py:102-131, the fields that carry a sign
Resumen(d, sm, sh) ==
    [Tipo |-> d.tipo_interno,
     Ajuste |-> IF d.ajuste.es_ajuste THEN "SI" ELSE "NO",
     Cabezas |-> SumCabezas(d.items) * sh,
     Kilos |-> SumKilos(d.items) * sh,
     NetoHacienda |-> d.importe_bruto * sm,
     IvaHacienda |-> d.iva_bruto * sm,
     Gastos |-> d.total_gastos * sm,
     IvaGastos |-> d.iva_gastos * sm]

(***************************************************************************)
(* build_outputs, processor.py:402-444: the row of the sales VAT book.     *)
(* Rates are in thousandths of a percent point here, since                 *)
(* _pct_from_totales rounds to three decimals.                             *)
(***************************************************************************)

\* n / d rounded to the nearest integer, for d > 0
RoundDiv(n, d) == (2 * n + d) \div (2 * d)

\* _pct_from_totales, processor.py:63-66: round(iva / bruto * 100, 3), the
\* quotient taken in two steps to stay within 32 bits
pct_from_totales(importe_bruto, iva_bruto) ==
    IF importe_bruto # 0 /\ iva_bruto # 0
    THEN ((iva_bruto * 100) \div importe_bruto) * 1000
             + RoundDiv(((iva_bruto * 100) % importe_bruto) * 1000, importe_bruto)
    ELSE 0

\* processor.py:411-414: the rate of the item, or that of the totals
ItemPct(it, d) ==
    IF it.iva_pct.some THEN it.iva_pct.v * 10
    ELSE pct_from_totales(d.importe_bruto, d.iva_bruto)

NoBuckets == [neto_105 |-> 0, iva_105 |-> 0, neto_21 |-> 0, iva_21 |-> 0, exento |-> 0]

\* the loop body without its else branch: an exempt item is added nowhere
LibroAdd_sin_exento(acc, it, d, sm) ==
    LET neto == it.bruto * sm
        iva == IF it.iva_importe.some THEN it.iva_importe.v * sm ELSE 0
        pct == ItemPct(it, d)
    IN  IF pct >= 20000
        THEN [acc EXCEPT !.neto_21 = @ + neto, !.iva_21 = @ + iva]
        ELSE IF pct > 0
        THEN [acc EXCEPT !.neto_105 = @ + neto, !.iva_105 = @ + iva]
        ELSE acc

\* One pass of `for it in d.items`, processor.py:408-423
LibroAdd(acc, it, d, sm) ==
    LET neto == it.bruto * sm
        iva == IF it.iva_importe.some THEN it.iva_importe.v * sm ELSE 0
        pct == ItemPct(it, d)
    IN  IF pct >= 20000
        THEN [acc EXCEPT !.neto_21 = @ + neto, !.iva_21 = @ + iva]
        ELSE IF pct > 0
        THEN [acc EXCEPT !.neto_105 = @ + neto, !.iva_105 = @ + iva]
        ELSE [acc EXCEPT !.exento = @ + neto]

RECURSIVE LibroBuckets(_, _, _, _)
LibroBuckets(acc, items, d, sm) ==
    IF items = <<>> THEN acc
    ELSE LibroBuckets(LibroAdd(acc, Head(items), d, sm), Tail(items), d, sm)

\* processor.py:428-444; amounts are whole cents, which round(x, 2) keeps
LibroVentasRow(d, sm) ==
    LET b == LibroBuckets(NoBuckets, d.items, d, sm)
    IN  [Tipo |-> d.tipo_interno,
         Neto105 |-> b.neto_105,
         Iva105 |-> b.iva_105,
         Neto21 |-> b.neto_21,
         Iva21 |-> b.iva_21,
         Exento |-> b.exento,
         Total |-> b.neto_105 + b.iva_105 + b.neto_21 + b.iva_21 + b.exento]

\* Documents given to build_outputs: ParsedDoc is a plain dataclass, so any
\* Ajuste value, any totals and any item list may come with any type code.
MaxBuildItems == 2

Roles == {"EMISOR", "RECEPTOR"}

CodArcas == {180, 183, 185, 186, 188, 190, 191, 0}

BuildItemPool ==
    { ItemHacienda("Novillo", 5, 0, "Cabeza", 45000, 225000, Some(1050), Some(23625)),
      ItemHacienda("Vaca", 20, 8000, "Kg Vivo", 250, 2000000, Some(1050), Some(210000)) }

BuildTotales ==
    { [importe_bruto |-> 0, iva_bruto |-> 0, total_gastos |-> 0, iva_gastos |-> 0],
      [importe_bruto |-> 2225000, iva_bruto |-> 233625,
       total_gastos |-> 50000, iva_gastos |-> 10500] }

BuildDocs ==
    { [cod_arca |-> c, tipo_interno |-> "OTRO", ajuste |-> a, items |-> its,
       importe_bruto |-> t.importe_bruto, iva_bruto |-> t.iva_bruto,
       total_gastos |-> t.total_gastos, iva_gastos |-> t.iva_gastos] :
          c \in CodArcas, a \in Ajustes, t \in BuildTotales,
          its \in UNION { [1..n -> BuildItemPool] : n \in 0..MaxBuildItems } }

BuildInit ==
    /\ bDoc \in BuildDocs
    /\ bRole \in Roles
    /\ s_m = 1
    /\ s_h = 1
    /\ ventas_rows = <<>>
    /\ compras_rows = <<>>
    /\ libro_ventas_rows = <<>>
    /\ bPc = "start"
    /\ NormIdle
    /\ CondIdle
    /\ AjIdle
    /\ ItemsIdle
    /\ BatchIdle
    /\ MergeIdle

\* One pass of the loop `for d in docs` of build_outputs.
BuildOutputs ==
    /\ bPc = "start"
    /\ LET mov == movimiento_por_regla(bDoc.cod_arca, bRole)
           sm == signo_montos(bDoc.ajuste)
           sh == SignoHacienda(bDoc.ajuste)
           resumen == Resumen(bDoc, sm, sh)
       IN  /\ s_m' = sm
           /\ s_h' = sh
           /\ ventas_rows' = IF mov = "VENTA" THEN Append(ventas_rows, resumen)
                             ELSE ventas_rows
           /\ compras_rows' = IF mov = "COMPRA" THEN Append(compras_rows, resumen)
                              ELSE compras_rows
           /\ libro_ventas_rows' =
                  IF mov = "VENTA"
                  THEN Append(libro_ventas_rows, LibroVentasRow(bDoc, sm))
                  ELSE libro_ventas_rows
    /\ bPc' = "done"
    /\ UNCHANGED <<bDoc, bRole, normVars, condVars, ajVars, itemVars, batchVars, mergeVars>>

BuildNext == BuildOutputs

SpecBuild == BuildInit /\ [][BuildNext]_vars

\* the summary rows build_outputs made for the document
ResumenRows == ventas_rows \o compras_rows

EsCredito(a) == a.es_ajuste /\ a.sentido = "CREDITO"

(***************************************************************************)
(* C5: in build_outputs, a physical credit adjustment negates the          *)
(* head-count and kilo totals; a monetary credit adjustment leaves them    *)
(* unsigned and negates gross, VAT on gross, expenses and VAT on expenses; *)
(* a non-adjustment or a debit adjustment negates nothing.                 *)
(***************************************************************************)
C5_SignosDelResumen ==
    bPc = "done" =>
        \A i \in 1..Len(ResumenRows) :
            LET r == ResumenRows[i]
                a == bDoc.ajuste
                cab == SumCabezas(bDoc.items)
                kil == SumKilos(bDoc.items)
            IN  /\ (EsCredito(a) /\ a.tipo = "FISICO") =>
                       /\ r.Cabezas = -cab
                       /\ r.Kilos = -kil
                /\ (EsCredito(a) /\ a.tipo = "MONETARIO") =>
                       /\ r.Cabezas = cab
                       /\ r.Kilos = kil
                       /\ r.NetoHacienda = -bDoc.importe_bruto
                       /\ r.IvaHacienda = -bDoc.iva_bruto
                       /\ r.Gastos = -bDoc.total_gastos
                       /\ r.IvaGastos = -bDoc.iva_gastos
                /\ (~a.es_ajuste \/ a.sentido = "DEBITO") =>
                       /\ r.Cabezas = cab
                       /\ r.Kilos = kil
                       /\ r.NetoHacienda = bDoc.importe_bruto
                       /\ r.IvaHacienda = bDoc.iva_bruto
                       /\ r.Gastos = bDoc.total_gastos
                       /\ r.IvaGastos = bDoc.iva_gastos

\* A physical credit adjustment with animals and amounts has a summary row.
C5_Witness ==
    /\ bPc = "done"
    /\ EsCredito(bDoc.ajuste)
    /\ bDoc.ajuste.tipo = "FISICO"
    /\ Len(ResumenRows) = 1
    /\ ResumenRows[1].Cabezas < 0
    /\ ResumenRows[1].Kilos < 0
    /\ ResumenRows[1].NetoHacienda < 0

(***************************************************************************)
(* C8: for every Ajuste value the sign multiplier is -1 exactly when       *)
(* es_ajuste is true and sentido is CREDITO, and +1 otherwise;             *)
(* afecta_cabezas_kilos is true exactly when es_ajuste is true and tipo is *)
(* FISICO.                                                                 *)
(***************************************************************************)
C8_SignoMontos ==
    bPc = "done" =>
        LET a == bDoc.ajuste
        IN  /\ s_m \in {-1, 1}
            /\ s_m = -1 <=> (a.es_ajuste /\ a.sentido = "CREDITO")
            /\ afecta_cabezas_kilos(a) <=> (a.es_ajuste /\ a.tipo = "FISICO")

\* A debit adjustment has been given its sign.
C8_Witness ==
    /\ bPc = "done"
    /\ bDoc.ajuste.es_ajuste
    /\ bDoc.ajuste.sentido = "DEBITO"
    /\ s_m = 1

(***************************************************************************)
(* Text as the line-item extractors read it: a sequence of tokens one      *)
(* space apart, lines separated by a line-break token.                     *)
(*   word  : a run of letters (s)           int : an integer (n), no commas *)
(*   money : an amount with two decimals, n in cents, written with         *)
(*           thousands separators ("95,000.00")                            *)
(*   um    : a unit-of-measure token, s in {"Kg Vivo", "Cabeza", "UN"}     *)
(*   hdr   : the phrase "Categoría/Raza"    lbl : the label "Importe Bruto:" *)
(*   nl    : a line break                                                  *)
(***************************************************************************)
Tok(k, s, n) == [k |-> k, s |-> s, n |-> n]
W(s) == Tok("word", s, 0)
I(n) == Tok("int", "", n)
M(c) == Tok("money", "", c)
UM(s) == Tok("um", s, 0)
Hdr == Tok("hdr", "Categoría/Raza", 0)
Lbl == Tok("lbl", "Importe Bruto:", 0)
NLTok == Tok("nl", "", 0)

\* The literals 10.50, 21.00, 27.00 and 0.00 (parser.py:59, 362), in
\* hundredths.
RateLiterals == {1050, 2100, 2700, 0}

IsHdr(t) == t.k = "hdr"
IsLbl(t) == t.k = "lbl"
IsRateTok(t) == t.k = "money" /\ t.n \in RateLiterals
IsTextTok(t) == t.k \in {"word", "hdr", "lbl", "tot", "sym"}
StartsWithDigit(t) == t.k \in {"int", "money"}

\* parse_int of the digit run \d[\d,]* that starts the token
IntPart(t) == IF t.k = "int" THEN t.n ELSE t.n \div 100

\* The index of the first TRUE of a sequence of booleans, 0 when there is
\* none: the place re.search finds, given which places match.
FirstIdx(hits) ==
    IF \E i \in 1..Len(hits) : hits[i]
    THEN CHOOSE i \in 1..Len(hits) : hits[i] /\ \A j \in 1..(i - 1) : ~hits[j]
    ELSE 0

\* Which elements of seq are tokens of kind k (with text s)
KindAt(seq, k) == [i \in 1..Len(seq) |-> seq[i].k = k]
WordAt(seq, s) == [i \in 1..Len(seq) |-> seq[i].k = "word" /\ seq[i].s = s]

\* money_tokens, parser.py:53-60
IsMoneyTok(t) == t.k = "money" /\ t.n \notin RateLiterals
money_tokens(line) == SelectSeq(line, IsMoneyTok)

\* re.search(r"Kg\.?\s*Vivo|\bCabeza\b", line), parser.py:316-317
IsMergeUm(t) == t.k = "um" /\ t.s \in {"Kg Vivo", "Cabeza"}
HasUm(line) == \E i \in 1..Len(line) : IsMergeUm(line[i])

\* re.search(r"[A-Za-z...]", line), parser.py:325, 342
HasLetterTok(t) == t.k \in {"word", "um", "hdr", "lbl", "tot"}
HasLetter(line) == \E i \in 1..Len(line) : HasLetterTok(line[i])

RECURSIVE NumDigits(_)
NumDigits(n) == IF n < 10 THEN 1 ELSE 1 + NumDigits(n \div 10)

\* len(re.findall(r"\d", line)), parser.py:333
RECURSIVE DigitCount(_)
DigitCount(line) ==
    IF line = <<>> THEN 0
    ELSE LET t == Head(line)
             d == IF t.k = "int" THEN NumDigits(t.n)
                  ELSE IF t.k = "money" THEN NumDigits(t.n \div 100) + 2
                  ELSE 0
         IN  d + DigitCount(Tail(line))

\* re.search(r"^(Datos\s+Adicionales|VENCIMIENTO)\b", nxt), parser.py:343
StartsDatosOrVencimiento(line) ==
    /\ line # <<>>
    /\ line[1].k = "word"
    /\ \/ line[1].s = "VENCIMIENTO"
       \/ /\ line[1].s = "Datos"
          /\ Len(line) >= 2
          /\ line[2].k = "word"
          /\ line[2].s = "Adicionales"

\* [ln.strip() for ln in block.splitlines() if ln.strip()], parser.py:301
RECURSIVE SplitLines(_)
SplitLines(block) ==
    IF block = <<>> THEN <<>>
    ELSE LET n == FirstIdx(KindAt(block, "nl"))
             first == IF n = 0 THEN block ELSE SubSeq(block, 1, n - 1)
             rest == IF n = 0 THEN <<>> ELSE SubSeq(block, n + 1, Len(block))
         IN  (IF first = <<>> THEN <<>> ELSE <<first>>) \o SplitLines(rest)

\* One iteration of the merge loop with rule (c) applied to every next line,
\* "Datos Adicionales" and "VENCIMIENTO" included
MergeIter_sin_excepcion(data_lines, i, merged) ==
    LET cur == data_lines[i]
        nxt == IF i + 1 <= Len(data_lines) THEN data_lines[i + 1] ELSE <<>>
    IN  IF ~HasUm(cur) /\ HasUm(nxt)
        THEN LET absorb == /\ i + 2 <= Len(data_lines)
                           /\ money_tokens(data_lines[i + 2]) = <<>>
                           /\ HasLetter(data_lines[i + 2])
             IN  [i |-> IF absorb THEN i + 3 ELSE i + 2,
                  merged |-> Append(merged, cur \o nxt \o
                                 (IF absorb THEN data_lines[i + 2] ELSE <<>>))]
        ELSE IF merged # <<>> /\ DigitCount(cur) < 3 /\ money_tokens(cur) = <<>>
        THEN [i |-> i + 1, merged |-> [merged EXCEPT ![Len(merged)] = @ \o cur]]
        ELSE LET annex == /\ i + 1 <= Len(data_lines)
                          /\ HasLetter(nxt)
                          /\ money_tokens(nxt) = <<>>
                          /\ money_tokens(cur) # <<>>
             IN  [i |-> IF annex THEN i + 2 ELSE i + 1,
                  merged |-> Append(merged, IF annex THEN cur \o nxt ELSE cur)]

\* One iteration in which rule (a) passes over the third line whether it
\* absorbs it or not
MergeIter_salta_tercera(data_lines, i, merged) ==
    LET cur == data_lines[i]
        nxt == IF i + 1 <= Len(data_lines) THEN data_lines[i + 1] ELSE <<>>
    IN  IF ~HasUm(cur) /\ HasUm(nxt)
        THEN LET absorb == /\ i + 2 <= Len(data_lines)
                           /\ money_tokens(data_lines[i + 2]) = <<>>
                           /\ HasLetter(data_lines[i + 2])
             IN  [i |-> i + 3,
                  merged |-> Append(merged, cur \o nxt \o
                                 (IF absorb THEN data_lines[i + 2] ELSE <<>>))]
        ELSE IF merged # <<>> /\ DigitCount(cur) < 3 /\ money_tokens(cur) = <<>>
        THEN [i |-> i + 1, merged |-> [merged EXCEPT ![Len(merged)] = @ \o cur]]
        ELSE LET annex == /\ i + 1 <= Len(data_lines)
                          /\ HasLetter(nxt)
                          /\ money_tokens(nxt) = <<>>
                          /\ money_tokens(cur) # <<>>
                          /\ ~StartsDatosOrVencimiento(nxt)
             IN  [i |-> IF annex THEN i + 2 ELSE i + 1,
                  merged |-> Append(merged, IF annex THEN cur \o nxt ELSE cur)]

\* One iteration in which rule (b) leaves the index where it is when the
\* previous row already ends with the line
MergeIter_sin_avance(data_lines, i, merged) ==
    LET cur == data_lines[i]
        nxt == IF i + 1 <= Len(data_lines) THEN data_lines[i + 1] ELSE <<>>
    IN  IF ~HasUm(cur) /\ HasUm(nxt)
        THEN LET absorb == /\ i + 2 <= Len(data_lines)
                           /\ money_tokens(data_lines[i + 2]) = <<>>
                           /\ HasLetter(data_lines[i + 2])
             IN  [i |-> IF absorb THEN i + 3 ELSE i + 2,
                  merged |-> Append(merged, cur \o nxt \o
                                 (IF absorb THEN data_lines[i + 2] ELSE <<>>))]
        ELSE IF merged # <<>> /\ DigitCount(cur) < 3 /\ money_tokens(cur) = <<>>
        THEN [i |-> i, merged |-> [merged EXCEPT ![Len(merged)] = cur]]
        ELSE LET annex == /\ i + 1 <= Len(data_lines)
                          /\ HasLetter(nxt)
                          /\ money_tokens(nxt) = <<>>
                          /\ money_tokens(cur) # <<>>
                          /\ ~StartsDatosOrVencimiento(nxt)
             IN  [i |-> IF annex THEN i + 2 ELSE i + 1,
                  merged |-> Append(merged, IF annex THEN cur \o nxt ELSE cur)]

\* One iteration of the merge loop of parse_items, parser.py:312-348, at
\* line i (counted from 1): the index and the list merged after it.
MergeIter(data_lines, i, merged) ==
    LET cur == data_lines[i]
        nxt == IF i + 1 <= Len(data_lines) THEN data_lines[i + 1] ELSE <<>>
    IN  IF ~HasUm(cur) /\ HasUm(nxt)
        THEN LET absorb == /\ i + 2 <= Len(data_lines)
                           /\ money_tokens(data_lines[i + 2]) = <<>>
                           /\ HasLetter(data_lines[i + 2])
             IN  [i |-> IF absorb THEN i + 3 ELSE i + 2,
                  merged |-> Append(merged, cur \o nxt \o
                                 (IF absorb THEN data_lines[i + 2] ELSE <<>>))]
        ELSE IF merged # <<>> /\ DigitCount(cur) < 3 /\ money_tokens(cur) = <<>>
        THEN [i |-> i + 1, merged |-> [merged EXCEPT ![Len(merged)] = @ \o cur]]
        ELSE LET annex == /\ i + 1 <= Len(data_lines)
                          /\ HasLetter(nxt)
                          /\ money_tokens(nxt) = <<>>
                          /\ money_tokens(cur) # <<>>
                          /\ ~StartsDatosOrVencimiento(nxt)
             IN  [i |-> IF annex THEN i + 2 ELSE i + 1,
                  merged |-> Append(merged, IF annex THEN cur \o nxt ELSE cur)]

\* The merge pass of parse_items, parser.py:310-348, from line i on.
RECURSIVE MergeLines(_, _, _)
MergeLines(data_lines, i, merged) ==
    IF i > Len(data_lines) THEN merged
    ELSE LET st == MergeIter(data_lines, i, merged)
         IN  MergeLines(data_lines, st.i, st.merged)

\* sorted(vals): insertion into an ascending sequence
RECURSIVE Insert(_, _)
Insert(v, sorted) ==
    IF sorted = <<>> THEN <<v>>
    ELSE IF v <= Head(sorted) THEN <<v>> \o sorted
    ELSE <<Head(sorted)>> \o Insert(v, Tail(sorted))

\* the values taken in the order of the row, without sorted()
Ordenar_sin_ordenar(vals) == vals

\* vals_sorted = sorted(vals), parser.py:384, 392
RECURSIVE Ordenar(_)
Ordenar(vals) ==
    IF vals = <<>> THEN <<>> ELSE Insert(Head(vals), Ordenar(Tail(vals)))

\* The unit of measure of a row, parser.py:351-358
DetectUm(ln) ==
    IF \E i \in 1..Len(ln) : ln[i].k = "um" /\ ln[i].s = "Kg Vivo" THEN "Kg Vivo"
    ELSE IF \E i \in 1..Len(ln) : ln[i].k = "um" /\ ln[i].s = "Cabeza" THEN "Cabeza"
    ELSE IF \E i \in 1..Len(ln) : ln[i].k = "um" /\ ln[i].s = "UN" THEN "Unidad"
    ELSE ""

\* The first place where the unit token u is followed by a token that starts
\* with a digit: re.search(r"\bCabeza\s+(\d[\d,]*)", ln) and its like.
UmThenNumber(ln, u) ==
    LET ok(i) == ln[i].k = "um" /\ ln[i].s = u /\ StartsWithDigit(ln[i + 1])
    IN  IF \E i \in 1..(Len(ln) - 1) : ok(i)
        THEN CHOOSE i \in 1..(Len(ln) - 1) : ok(i) /\ \A j \in 1..(i - 1) : ~ok(j)
        ELSE 0

\* an integer of 1 to 5 digits standing alone: \s(\d{1,5})\s
IsShortInt(t) == t.k = "int" /\ t.n < 100000

\* re.search(r"\s(\d{1,5})\s+Kg\.?\s*Vivo\s+(\d[\d,]*)", ln), parser.py:402:
\* the index of the integer, 0 when there is no match.
CountKgQuantity(ln) ==
    LET ok(i) == /\ IsShortInt(ln[i])
                 /\ ln[i + 1].k = "um" /\ ln[i + 1].s = "Kg Vivo"
                 /\ StartsWithDigit(ln[i + 2])
    IN  IF \E i \in 2..(Len(ln) - 2) : ok(i)
        THEN CHOOSE i \in 2..(Len(ln) - 2) : ok(i) /\ \A j \in 2..(i - 1) : ~ok(j)
        ELSE 0

\* re.search(r"\b(\d{1,5})\s+Kg\.?\s*Vivo\b", ln), parser.py:407: the value
\* of group 1, NoNumber when there is no match.  Before "Kg Vivo" an integer
\* of 1 to 5 digits matches whole; of an amount the two decimals match.
CountBeforeKg(ln) ==
    LET ok(i) == /\ ln[i + 1].k = "um" /\ ln[i + 1].s = "Kg Vivo"
                 /\ (IsShortInt(ln[i]) \/ ln[i].k = "money")
    IN  IF \E i \in 1..(Len(ln) - 1) : ok(i)
        THEN LET i == CHOOSE i \in 1..(Len(ln) - 1) :
                          ok(i) /\ \A j \in 1..(i - 1) : ~ok(j)
             IN  Some(IF ln[i].k = "int" THEN ln[i].n ELSE ln[i].n % 100)
        ELSE NoNumber

\* cabezas and kilos of a row, parser.py:398-431
CabezasKilos(ln, um) ==
    IF um = "Kg Vivo"
    THEN LET m == CountKgQuantity(ln)
         IN  IF m # 0
             THEN [cabezas |-> ln[m].n, kilos |-> IntPart(ln[m + 2])]
             ELSE LET m2 == CountBeforeKg(ln)
                      m3 == UmThenNumber(ln, "Kg Vivo")
                  IN  [cabezas |-> IF m2.some THEN m2.v ELSE 0,
                       kilos |-> IF m3 # 0 THEN IntPart(ln[m3 + 1]) ELSE 0]
    ELSE IF um = "Cabeza"
    THEN LET m == UmThenNumber(ln, "Cabeza")
         IN  [cabezas |-> IF m # 0 THEN IntPart(ln[m + 1]) ELSE 0, kilos |-> 0]
    ELSE IF um = "Unidad"
    THEN LET m == UmThenNumber(ln, "UN")
         IN  [cabezas |-> IF m # 0 THEN IntPart(ln[m + 1]) ELSE 0, kilos |-> 0]
    ELSE [cabezas |-> 0, kilos |-> 0]

\* _text_only_category, parser.py:273-284: the words left once amounts,
\* integers and unit tokens are removed.
_text_only_category(line) ==
    LET ws == SelectSeq(line, IsTextTok)
    IN  [i \in 1..Len(ws) |-> ws[i].s]

\* The anti-expense filter, parser.py:437 and 524-528, on a category given
\* as its words.
NonLivestockWords ==
    {"Comisión", "Comision", "Gasto", "Gastos", "Alicuota", "Alícuota", "IVA"}

IsNonLivestock(categoria) ==
    \/ \E i \in 1..Len(categoria) : categoria[i] \in NonLivestockWords
    \/ \E i \in 1..(Len(categoria) - 1) :
           categoria[i] = "Base" /\ categoria[i + 1] = "Imponible"

\* One merged row, parser.py:350-451: <<item>>, or <<>> when it is dropped.
ItemOfRow(ln) ==
    LET um == DetectUm(ln)
        r == FirstIdx([i \in 1..Len(ln) |-> IsRateTok(ln[i])])
        iva_pct == IF r # 0 THEN Some(ln[r].n) ELSE NoNumber
        monies == money_tokens(ln)
        vals == [i \in 1..Len(monies) |-> monies[i].n]
        vals_sorted == Ordenar(vals)
        n == Len(vals_sorted)
        ck == CabezasKilos(ln, um)
        categoria == _text_only_category(ln)
    IN  IF r # 0 /\ n < 2 THEN <<>>
        ELSE IF r = 0 /\ n < 1 THEN <<>>
        ELSE IF categoria = <<>> THEN <<>>
        ELSE IF IsNonLivestock(categoria) THEN <<>>
        ELSE IF r # 0
        THEN << ItemHacienda(categoria, ck.cabezas, ck.kilos, um,
                             IF n >= 3 THEN vals_sorted[1] ELSE 0,
                             vals_sorted[n], iva_pct, Some(vals_sorted[n - 1])) >>
        ELSE << ItemHacienda(categoria, ck.cabezas, ck.kilos, um,
                             IF n >= 2 THEN vals_sorted[1] ELSE 0,
                             vals_sorted[n], NoNumber, NoNumber) >>

\* the loop over the rows giving up the whole document at a dropped row
ItemsOfRows_todo_o_nada(merged) ==
    IF \E i \in 1..Len(merged) : ItemOfRow(merged[i]) = <<>> THEN <<>>
    ELSE [i \in 1..Len(merged) |-> ItemOfRow(merged[i])[1]]

RECURSIVE ItemsOfRows(_)
ItemsOfRows(merged) ==
    IF merged = <<>> THEN <<>>
    ELSE ItemOfRow(Head(merged)) \o ItemsOfRows(Tail(merged))

HasHdr(line) == \E i \in 1..Len(line) : IsHdr(line[i])

\* parse_items without the test of the two markers of parser.py:292
parse_items_sin_marcadores(text) ==
    ItemsOfRows(MergeLines(SplitLines(text), 1, <<>>))

\* re.search(r"\bGastos\b", between), parser.py:297
IsGastosWord(t) ==
    \/ t.k = "word" /\ t.s = "Gastos"
    \/ t.k = "tot" /\ t.s \in {"Total Gastos:", "IVA s/Gastos:"}

(***************************************************************************)
(* parse_items (Strategy B), parser.py:287-453.                            *)
(***************************************************************************)
\* The reconstructed rows of the text, parser.py:289-348: <<>> when a marker
\* is missing.
Merged(text) ==
    LET start == FirstIdx(KindAt(text, "hdr"))
        end == FirstIdx(KindAt(text, "lbl"))
    IN  IF start = 0 \/ end = 0 \/ end <= start THEN <<>>
        ELSE LET between == SubSeq(text, start, end - 1)
                 g == FirstIdx([i \in 1..Len(between) |-> IsGastosWord(between[i])])
                 block == IF g # 0 THEN SubSeq(between, 1, g - 1) ELSE between
                 lines == SplitLines(block)
                 header_idx == FirstIdx([i \in 1..Len(lines) |-> HasHdr(lines[i])])
             IN  IF header_idx = 0 THEN <<>>
                 ELSE MergeLines(SubSeq(lines, header_idx + 1, Len(lines)),
                                 1, <<>>)

parse_items(text) == ItemsOfRows(Merged(text))

(***************************************************************************)
(* parse_items_from_pdf (Strategy A), parser.py:457-583.                   *)
(*                                                                         *)
(* A table is a sequence of rows.  Its first row holds the header strings; *)
(* the cells of the other rows are tokens as above, plus                   *)
(*   none : a cell that is None or blank                                   *)
(*   cuit : a word (s) behind an "11-digit id - " prefix                   *)
(* Column indices count from 1; 0 stands for idx_of's None.                *)
(***************************************************************************)
NoCell == Tok("none", "", 0)
Cuit(s) == Tok("cuit", s, 0)

\* parse_money, parser.py:27-37, on a cell or a token
parse_money(c) ==
    IF c.k = "int" THEN Some(c.n * 100)
    ELSE IF c.k = "money" THEN Some(c.n)
    ELSE NoNumber

\* parse_int, parser.py:40-50, on a cell or a token: int(float(s))
parse_int(c) ==
    IF c.k = "int" THEN Some(c.n)
    ELSE IF c.k = "money"
    THEN Some(IF c.n >= 0 THEN c.n \div 100 ELSE -((-c.n) \div 100))
    ELSE NoNumber

\* `x or 0`
OrZero(x) == IF x.some THEN x.v ELSE 0

\* The text of a number as the document writes it
Pad3(k) == ToString(k \div 100) \o ToString((k \div 10) % 10) \o ToString(k % 10)

RECURSIVE Thousands(_)
Thousands(n) ==
    IF n < 1000 THEN ToString(n)
    ELSE Thousands(n \div 1000) \o "," \o Pad3(n % 1000)

\* (row[i] or "").strip()
CellText(c) ==
    IF c.k \in {"word", "um", "hdr", "lbl", "tot", "sym"} THEN c.s
    ELSE IF c.k = "cuit"
    THEN (IF c.s = "" THEN "00000000000 -" ELSE "00000000000 - " \o c.s)
    ELSE IF c.k = "int" THEN ToString(c.n)
    ELSE IF c.k = "money"
    THEN LET a == IF c.n >= 0 THEN c.n ELSE -c.n
         IN  (IF c.n < 0 THEN "-" ELSE "") \o Thousands(a \div 100) \o "." \o
             ToString((a % 100) \div 10) \o ToString(a % 10)
    ELSE ""

\* Header strings that re.search(r"Categor[ií]a\s*/\s*Raza", h) accepts
H_CATEGORIA == {"Categoría/Raza", "Categoria/Raza", "Categoría / Raza"}
\* ... and those the scoring expression of parser.py:480 accepts
H_SCORE == {"Cabezas", "UM", "Cantidad", "$ Bruto", "% IVA", "$ IVA", "$ UM",
            "Cliente"}
\* ... and those each pattern list of parser.py:503-509 accepts
H_CABEZAS == {"Cabezas"}
H_UM == {"UM", "$ UM"}
H_CANTIDAD == {"Cantidad"}
H_PRECIO == {"$ UM", "$ U.M."}
H_BRUTO == {"$ Bruto", "Bruto"}
H_IVA_PCT == {"% IVA", "IVA %"}
H_IVA_IMP == {"$ IVA"}

\* idx_of, parser.py:495-500
idx_of(header, patterns) ==
    FirstIdx([i \in 1..Len(header) |-> header[i] \in patterns])

\* score of a table, parser.py:476-485
ScoreWeight == 100

Score(t) ==
    Cardinality({i \in 1..Len(t[1]) : t[1][i] \in H_SCORE}) * ScoreWeight + Len(t)

\* The tables of pdf.pages[:2], in the order they are scanned
RECURSIVE TablesOf(_)
TablesOf(pages) ==
    IF pages = <<>> THEN <<>> ELSE Head(pages) \o TablesOf(Tail(pages))

FirstTwo(pages) == SubSeq(pages, 1, IF Len(pages) < 2 THEN Len(pages) ELSE 2)

\* the selection loop with `score >= best_score`: the last of equals is kept
RECURSIVE BestTable_ultimo(_, _, _)
BestTable_ultimo(tables, best_table, best_score) ==
    IF tables = <<>> THEN best_table
    ELSE LET t == Head(tables)
         IN  IF t = <<>> \/ t[1] = <<>>
             THEN BestTable_ultimo(Tail(tables), best_table, best_score)
             ELSE IF idx_of(t[1], H_CATEGORIA) = 0
             THEN BestTable_ultimo(Tail(tables), best_table, best_score)
             ELSE IF Score(t) >= best_score
             THEN BestTable_ultimo(Tail(tables), t, Score(t))
             ELSE BestTable_ultimo(Tail(tables), best_table, best_score)

\* The selection loop, parser.py:466-488; best_table is <<>> for None.
RECURSIVE BestTable(_, _, _)
BestTable(tables, best_table, best_score) ==
    IF tables = <<>> THEN best_table
    ELSE LET t == Head(tables)
         IN  IF t = <<>> \/ t[1] = <<>>
             THEN BestTable(Tail(tables), best_table, best_score)
             ELSE IF idx_of(t[1], H_CATEGORIA) = 0
             THEN BestTable(Tail(tables), best_table, best_score)
             ELSE IF Score(t) > best_score
             THEN BestTable(Tail(tables), t, Score(t))
             ELSE BestTable(Tail(tables), best_table, best_score)

\* The unit of measure of a table row, parser.py:533-541
TableUm(c) ==
    LET um == IF CellText(c) \in {"Kgs", "Kg."} THEN "Kg" ELSE CellText(c)
    IN  IF um \in {"Kg Vivo", "Kg. Vivo", "KgVivo"} THEN "Kg Vivo"
        ELSE IF um = "Cabeza" THEN "Cabeza"
        ELSE IF um \in {"UN", "Unidad", "Unidades"} THEN "Unidad"
        ELSE um

\* float(s.replace(",", "").replace("%", "")) of a cell, None when the cell
\* is blank or float raises, parser.py:553-560
TableIvaPct(c) ==
    IF c.k = "int" THEN Some(c.n * 100)
    ELSE IF c.k = "money" THEN Some(c.n)
    ELSE NoNumber

\* The category of a table row, parser.py:517-522, as its words
TableCategoria(c) ==
    IF c.k = "none" THEN <<>>
    ELSE IF c.k = "cuit" THEN (IF c.s = "" THEN <<>> ELSE <<c.s>>)
    ELSE <<CellText(c)>>

\* The column indices of a header, parser.py:502-509
Columns(header) ==
    [categoria |-> idx_of(header, H_CATEGORIA),
     cabezas |-> idx_of(header, H_CABEZAS),
     um |-> idx_of(header, H_UM),
     cantidad |-> idx_of(header, H_CANTIDAD),
     precio |-> idx_of(header, H_PRECIO),
     bruto |-> idx_of(header, H_BRUTO),
     iva_pct |-> idx_of(header, H_IVA_PCT),
     iva_imp |-> idx_of(header, H_IVA_IMP)]

\* One row of the table, parser.py:514-578: the row is skipped, or reading
\* a cell beyond its end raises IndexError, or it gives one item.
TableRow(row, idx) ==
    IF row = <<>> \/ idx.categoria > Len(row)
    THEN [raises |-> FALSE, items |-> <<>>]
    ELSE LET categoria == TableCategoria(row[idx.categoria])
             has(i) == i # 0 /\ i <= Len(row)
         IN  IF row[idx.categoria].k = "none" \/ IsNonLivestock(categoria)
             THEN [raises |-> FALSE, items |-> <<>>]
             ELSE IF \/ idx.cabezas > Len(row)
                     \/ idx.um > Len(row)
                     \/ idx.bruto > Len(row)
             THEN [raises |-> TRUE, items |-> <<>>]
             ELSE [raises |-> FALSE,
                   items |-> << ItemHacienda(
                       categoria,
                       OrZero(parse_int(row[idx.cabezas])),
                       IF has(idx.cantidad)
                       THEN OrZero(parse_int(row[idx.cantidad])) ELSE 0,
                       TableUm(row[idx.um]),
                       IF has(idx.precio)
                       THEN OrZero(parse_money(row[idx.precio])) ELSE 0,
                       OrZero(parse_money(row[idx.bruto])),
                       IF has(idx.iva_pct)
                       THEN TableIvaPct(row[idx.iva_pct]) ELSE NoNumber,
                       IF has(idx.iva_imp) /\ row[idx.iva_imp].k # "none"
                       THEN Some(OrZero(parse_money(row[idx.iva_imp])))
                       ELSE NoNumber) >>]

\* The items of the rows that gave one, in the order of the rows
RECURSIVE RowItems(_)
RowItems(outs) ==
    IF outs = <<>> THEN <<>> ELSE Head(outs).items \o RowItems(Tail(outs))

\* the loop with the try inside it: a row that raises is skipped
TableRows_salta_fila(rows, idx) ==
    LET outs == [i \in 1..Len(rows) |-> TableRow(rows[i], idx)]
        GaveItem(o) == o.items # <<>>
    IN  [raises |-> FALSE,
         items |-> RowItems(SelectSeq(outs, GaveItem))]

\* The loop over the rows, parser.py:514-578
TableRows(rows, idx) ==
    LET outs == [i \in 1..Len(rows) |-> TableRow(rows[i], idx)]
        GaveItem(o) == o.items # <<>>
    IN  [raises |-> \E i \in 1..Len(outs) : outs[i].raises,
         items |-> RowItems(SelectSeq(outs, GaveItem))]

\* the rows read before the exception are kept: `except Exception: return items`
TableItems_parcial(out) == out.items

\* try ... except Exception: return [], parser.py:464, 580-581
TableItems(out) == IF out.raises THEN <<>> ELSE out.items

parse_items_from_pdf(pdf_path) ==
    LET best_table == BestTable(TablesOf(FirstTwo(pdf_path.pages)), <<>>, -1)
    IN  IF ~pdf_path.tables_ok THEN TableItems([raises |-> TRUE, items |-> <<>>])
        ELSE IF best_table = <<>> THEN <<>>
        ELSE LET idx == Columns(best_table[1])
             IN  IF \/ idx.categoria = 0
                    \/ idx.cabezas = 0
                    \/ idx.um = 0
                    \/ idx.bruto = 0
                 THEN <<>>
                 ELSE TableItems(TableRows(Tail(best_table), idx))

(***************************************************************************)
(* parse_totales, parser.py:259-270.                                       *)
(*                                                                         *)
(* Two more kinds of token:                                                *)
(*   tot : one of the labels "IVA s/Bruto:", "Total Gastos:",              *)
(*         "IVA s/Gastos:", "Importe Neto:" (s)                            *)
(*   sym : the currency sign "$"                                           *)
(***************************************************************************)
Peso == Tok("sym", "$", 0)
TotLbl(s) == Tok("tot", s, 0)

\* The token of a label of parse_totales
LabelTok(label) == IF label = "Importe Bruto:" THEN Lbl ELSE TotLbl(label)

\* \s* from position j on: the first position that is not a line break
RECURSIVE SkipBlank(_, _)
SkipBlank(text, j) ==
    IF j <= Len(text) /\ text[j].k = "nl" THEN SkipBlank(text, j + 1) ELSE j

\* The position of the group of  label \s* \$? \s* ([0-9][0-9,]*\.[0-9]{2})
\* for the label at position i, 0 when the pattern does not match there.
ValueAfter(text, i) ==
    LET j == SkipBlank(text, i + 1)
        k == IF j <= Len(text) /\ text[j] = Peso
             THEN SkipBlank(text, j + 1) ELSE j
    IN  IF k <= Len(text) /\ text[k].k = "money" THEN k ELSE 0

\* money_after with None, not 0.0, for a label that no amount follows
money_after_None(label, text) ==
    LET i == FirstIdx([j \in 1..Len(text) |->
                          text[j] = LabelTok(label) /\ ValueAfter(text, j) # 0])
    IN  IF i = 0 THEN NoNumber ELSE parse_money(text[ValueAfter(text, i)])

\* money_after with a pattern that accepts any of the labels
money_after_cualquier_rotulo(label, text) ==
    LET i == FirstIdx([j \in 1..Len(text) |->
                          text[j].k \in {"lbl", "tot"} /\ ValueAfter(text, j) # 0])
    IN  IF i = 0 THEN Some(0) ELSE parse_money(text[ValueAfter(text, i)])

\* money_after, parser.py:260-262: re.search finds the leftmost place where
\* the label is followed by a value.
money_after(label, text) ==
    LET i == FirstIdx([j \in 1..Len(text) |->
                          text[j] = LabelTok(label) /\ ValueAfter(text, j) # 0])
    IN  IF i = 0 THEN Some(0) ELSE parse_money(text[ValueAfter(text, i)])

\* parser.py:264-270
parse_totales(text) ==
    [importe_bruto |-> money_after("Importe Bruto:", text),
     iva_bruto |-> money_after("IVA s/Bruto:", text),
     total_gastos |-> money_after("Total Gastos:", text),
     iva_gastos |-> money_after("IVA s/Gastos:", text),
     importe_neto |-> money_after("Importe Neto:", text)]

(***************************************************************************)
(* parse_gastos, parser.py:585-606.                                        *)
(***************************************************************************)
Gasto(concepto, importe, iva_pct, iva_importe) ==
    [concepto |-> concepto, base |-> NoNumber, alicuota |-> NoNumber,
     importe |-> importe, iva_pct |-> iva_pct, iva_importe |-> iva_importe]

\* The first line break at or after position j, 0 when there is none
NextNL(text, j) ==
    FirstIdx([k \in 1..Len(text) |-> k >= j /\ text[k].k = "nl"])

\* The first "\nImporte Bruto:" at or after position j, 0 when there is none
LabelLineFrom(text, j) ==
    FirstIdx([k \in 1..Len(text) |->
                 k >= j /\ k < Len(text) /\ text[k].k = "nl" /\ IsLbl(text[k + 1])])

\* Gastos\s+.*?\n(.*?)\nImporte Bruto:  with "Gastos" at position i and \s+
\* taking e line breaks (a single space when e = 0): .*?\n ends at the first
\* line break p after them, the group runs to the first "\nImporte Bruto:"
\* after p; \s+ gives back a line break when that fails.
RECURSIVE GastosMatch(_, _, _)
GastosMatch(text, i, e) ==
    LET p == NextNL(text, i + 1 + e)
        q == IF p = 0 THEN 0 ELSE LabelLineFrom(text, p + 1)
    IN  IF q # 0 THEN [found |-> TRUE, block |-> SubSeq(text, p + 1, q - 1)]
        ELSE IF e > 1 THEN GastosMatch(text, i, e - 1)
        ELSE [found |-> FALSE, block |-> <<>>]

\* The match of the pattern that starts at position i
GastosMatchAt(text, i) ==
    IF text[i] = W("Gastos") /\ i < Len(text)
    THEN GastosMatch(text, i, SkipBlank(text, i + 1) - (i + 1))
    ELSE [found |-> FALSE, block |-> <<>>]

\* m.group(1) of parser.py:587-590, <<>> when there is no match
GastosBlock(text) ==
    LET i == FirstIdx([k \in 1..Len(text) |-> GastosMatchAt(text, k).found])
    IN  IF i = 0 THEN <<>> ELSE GastosMatchAt(text, i).block

\* re.sub(r"\s+\d.*$", "", ln).strip() or "Gasto", parser.py:593, as words
Concepto(ln) ==
    LET c == FirstIdx([k \in 1..Len(ln) |-> k >= 2 /\ StartsWithDigit(ln[k])])
        kept == IF c = 0 THEN ln ELSE SubSeq(ln, 1, c - 1)
    IN  IF kept = <<>> THEN <<"Gasto">>
        ELSE [k \in 1..Len(kept) |-> CellText(kept[k])]

\* parser.py:594-595
GastoIvaPct(ln) ==
    LET r == FirstIdx([k \in 1..Len(ln) |-> IsRateTok(ln[k])])
    IN  IF r = 0 THEN NoNumber ELSE Some(ln[r].n)

\* the amounts taken from the first tokens of the line
GastoImportes_primeros(monies) ==
    IF Len(monies) >= 2
    THEN [importe |-> OrZero(parse_money(monies[1])),
          iva_importe |-> Some(OrZero(parse_money(monies[2])))]
    ELSE [importe |-> OrZero(parse_money(monies[1])),
          iva_importe |-> NoNumber]

\* parser.py:599-605, for a line with at least one monetary token
GastoImportes(monies) ==
    IF Len(monies) >= 2
    THEN [importe |-> OrZero(parse_money(monies[Len(monies) - 1])),
          iva_importe |-> Some(OrZero(parse_money(monies[Len(monies)])))]
    ELSE [importe |-> OrZero(parse_money(monies[Len(monies)])),
          iva_importe |-> NoNumber]

\* the gastos of one line, parser.py:592-605
GastoOfLine(ln) ==
    LET monies == money_tokens(ln)
    IN  IF monies = <<>> THEN <<>>
        ELSE << Gasto(Concepto(ln), GastoImportes(monies).importe,
                      GastoIvaPct(ln), GastoImportes(monies).iva_importe) >>

\* the expenses in the reverse order of their lines
RECURSIVE GastosOfLines_invertido(_)
GastosOfLines_invertido(lines) ==
    IF lines = <<>> THEN <<>>
    ELSE GastosOfLines_invertido(Tail(lines)) \o GastoOfLine(Head(lines))

RECURSIVE GastosOfLines(_)
GastosOfLines(lines) ==
    IF lines = <<>> THEN <<>>
    ELSE GastoOfLine(Head(lines)) \o GastosOfLines(Tail(lines))

parse_gastos(text) == GastosOfLines(SplitLines(GastosBlock(text)))

(***************************************************************************)
(* parse_header, parser.py:202-226.                                        *)
(*                                                                         *)
(* The anchors of the header are tokens of their own:                      *)
(*   cod     : "Cód. 180"                    (n the three digits)          *)
(*   orig    : "ORIGINAL A"                  (s the letter)                *)
(*   nro     : "N° 00001-00000123"           (s the point of sale, n the   *)
(*                                            number)                      *)
(*   fecha   : "Fecha 01/02/2024"            (s the date)                  *)
(*   fechaop : "Fecha Operación:01/02/2024"  (s the date)                  *)
(***************************************************************************)
Cod(n) == Tok("cod", "", n)
Orig(letra) == Tok("orig", letra, 0)
Nro(pv, n) == Tok("nro", pv, n)
Fecha(d) == Tok("fecha", d, 0)
FechaOp(d) == Tok("fechaop", d, 0)

\* n written with w digits
RECURSIVE ZeroPad(_, _)
ZeroPad(n, w) ==
    IF w = 0 THEN "" ELSE ZeroPad(n \div 10, w - 1) \o ToString(n % 10)

\* The text of a token, as the document writes it
TokText(t) ==
    IF t.k = "cod" THEN "Cód. " \o ZeroPad(t.n, 3)
    ELSE IF t.k = "orig" THEN "ORIGINAL " \o t.s
    ELSE IF t.k = "nro" THEN "N° " \o t.s \o "-" \o ZeroPad(t.n, 8)
    ELSE IF t.k = "fecha" THEN "Fecha " \o t.s
    ELSE IF t.k = "fechaop" THEN "Fecha Operación:" \o t.s
    ELSE IF t.k = "cuitlbl" THEN "CUIT: " \o t.s
    ELSE IF t.k = "razon" THEN "Razón Social: " \o t.s
    ELSE IF t.k = "condiva" THEN "Condicion frente al IVA: " \o t.s
    ELSE IF t.k = "situacion" THEN "Situación IVA: " \o t.s
    ELSE IF t.k = "iibb" THEN "Ingresos Brutos: " \o t.s
    ELSE IF t.k = "nroiibb" THEN "N° IIBB: " \o t.s
    ELSE IF t.k = "ret" THEN t.s \o ": " \o CellText([k |-> "money", s |-> "", n |-> t.n])
    ELSE IF t.k = "retmal" THEN t.s \o ": 1.2.3"
    ELSE CellText(t)

TokTexts(toks) == [i \in 1..Len(toks) |-> TokText(toks[i])]

\* _find_one on an anchor of kind k, parser.py:63-65: the first token of the
\* kind, <<>> when there is none
FindTok(text, k) ==
    LET i == FirstIdx(KindAt(text, k))
    IN  IF i = 0 THEN <<>> ELSE <<text[i]>>

\* The index of the last token of text[a..b] that is not a line break, a - 1
\* when there is none
RECURSIVE RStrip(_, _, _)
RStrip(text, a, b) ==
    IF b >= a /\ text[b].k = "nl" THEN RStrip(text, a, b - 1) ELSE b

\* Tokens that start with "N°"
IsNumeroMark(t) == t.k \in {"nro", "nroiibb"}

\* The group of  ORIGINAL\s+[AB]\s+(.+?)\s+N[°º]  for the "ORIGINAL A" at
\* position i, <<>> when the pattern does not match there: the tokens after
\* it up to the first "N°", all on one line.
TituloAt(text, i) ==
    IF text[i].k # "orig" THEN <<>>
    ELSE LET a == SkipBlank(text, i + 1)
             j == FirstIdx([k \in 1..Len(text) |-> k > a /\ IsNumeroMark(text[k])])
             e == RStrip(text, a, j - 1)
         IN  IF j = 0 \/ e < a THEN <<>>
             ELSE IF \E k \in a..e : text[k].k = "nl" THEN <<>>
             ELSE SubSeq(text, a, e)

\* the first three non-empty lines joined, parser.py:205-206
FirstLines(text) ==
    LET lines == SplitLines(text)
        n == IF Len(lines) < 3 THEN Len(lines) ELSE 3
    IN  Flatten(SubSeq(lines, 1, n))

\* titulo, parser.py:203-206, as the texts of its tokens
Titulo(text) ==
    LET i == FirstIdx([k \in 1..Len(text) |-> TituloAt(text, k) # <<>>])
    IN  IF i # 0 THEN TokTexts(TituloAt(text, i))
        ELSE TokTexts(FirstLines(text))

\* The header fields; "" where the pattern is not found.  cod_arca is the
\* sequence of the three digits.
parse_header(text) ==
    LET cod == FindTok(text, "cod")
        orig == FindTok(text, "orig")
        nro == FindTok(text, "nro")
        fecha == FindTok(text, "fecha")
        fechaop == FindTok(text, "fechaop")
    IN  [titulo |-> Titulo(text),
         cod_arca |-> IF cod = <<>> THEN <<>>
                      ELSE <<cod[1].n \div 100, (cod[1].n \div 10) % 10,
                             cod[1].n % 10>>,
         letra |-> IF orig = <<>> THEN "" ELSE orig[1].s,
         pv |-> IF nro = <<>> THEN "" ELSE nro[1].s,
         numero |-> IF nro = <<>> THEN "" ELSE ZeroPad(nro[1].n, 8),
         fecha |-> IF fecha = <<>> THEN "" ELSE fecha[1].s,
         fecha_operacion |-> IF fechaop = <<>> THEN "" ELSE fechaop[1].s]

\* int(s) on a sequence of digits
RECURSIVE IntOf(_)
IntOf(ds) ==
    IF ds = <<>> THEN 0 ELSE IntOf(SubSeq(ds, 1, Len(ds) - 1)) * 10 + ds[Len(ds)]

(***************************************************************************)
(* parse_parties, parser.py:142-200.                                       *)
(*                                                                         *)
(* The labelled fields of a party are tokens of their own; s is the text   *)
(* that the group of the pattern matches:                                  *)
(*   cuitlbl   : "CUIT: 20123456789"                                       *)
(*   razon     : "Razón Social: ..." or "Nombre y Apellido: ..."           *)
(*   condiva   : "Condicion frente al IVA: ..."                            *)
(*   situacion : "Situación IVA: ..."                                      *)
(*   iibb      : "Ingresos Brutos: ..."                                    *)
(*   nroiibb   : "N° IIBB: ..."                                            *)
(***************************************************************************)
CuitLbl(s) == Tok("cuitlbl", s, 0)
Razon(s) == Tok("razon", s, 0)
CondIva(s) == Tok("condiva", s, 0)
Situacion(s) == Tok("situacion", s, 0)
Iibb(s) == Tok("iibb", s, 0)
NroIibb(s) == Tok("nroiibb", s, 0)

Party(cuit, nombre, cond_iva_raw, cond_iva, iibb) ==
    [cuit |-> cuit, nombre |-> nombre, cond_iva_raw |-> cond_iva_raw,
     cond_iva |-> cond_iva, iibb |-> iibb]

\* The characters of the words that the keyword searches of rules.py look
\* for; any other word holds none of the keywords.
Chars(s) ==
    CASE s = "" -> <<>>
      [] s = "AJUSTE" -> K_AJUSTE
      [] s = "CRÉDITO" -> K_CREDITO_ACENTO
      [] s = "CREDITO" -> K_CREDITO
      [] s = "DÉBITO" -> K_DEBITO_ACENTO
      [] s = "DEBITO" -> K_DEBITO
      [] s = "FÍSICO" -> <<"F", "Í", "S", "I", "C", "O">>
      [] s = "FISICO" -> <<"F", "I", "S", "I", "C", "O">>
      [] s = "MONETARIO" -> <<"M", "O", "N", "E", "T", "A", "R", "I", "O">>
      [] s = "FINANCIERO" ->
             <<"F", "I", "N", "A", "N", "C", "I", "E", "R", "O">>
      [] s = "Responsable Inscripto" ->
             <<"R", "e", "s", "p", "o", "n", "s", "a", "b", "l", "e", " ",
               "I", "n", "s", "c", "r", "i", "p", "t", "o">>
      [] s = "Monotributo" ->
             <<"M", "o", "n", "o", "t", "r", "i", "b", "u", "t", "o">>
      [] s = "Exento" -> <<"E", "x", "e", "n", "t", "o">>
      [] OTHER -> <<"_">>

\* The characters of a text: the tokens of a line one space apart
RECURSIVE TextChars(_)
TextChars(text) ==
    IF text = <<>> THEN <<>>
    ELSE LET t == Head(text)
             c == IF t.k = "nl" THEN <<NL>>
                  ELSE IF t.k = "word" THEN Chars(t.s)
                  ELSE <<"_">>
             sep == IF Len(text) >= 2 /\ t.k # "nl" /\ text[2].k # "nl"
                    THEN <<" ">> ELSE <<>>
         IN  c \o sep \o TextChars(Tail(text))

\* re.search(r"\bReceptor\b", text, re.IGNORECASE)
IsReceptor(t) == t.k = "word" /\ t.s \in {"Receptor", "RECEPTOR"}

\* What the upper-cased text of a token holds
HasOriginal(t) == t.k = "orig" \/ (t.k = "word" /\ t.s \in {"ORIGINAL", "Original"})
HasLiquid(t) ==
    t.k = "word" /\ t.s \in {"LIQUIDACIÓN", "LIQUIDACION", "Liquidación"}
HasCuitOrIibb(t) == t.k \in {"cuitlbl", "iibb"}
HasCod(t) == t.k = "cod" \/ (t.k = "word" /\ t.s \in {"Cód.", "Cod."})
StartsFecha(t) ==
    t.k \in {"fecha", "fechaop"} \/ (t.k = "word" /\ t.s \in {"Fecha", "FECHA"})

AnyHit(hits) == \E i \in 1..Len(hits) : hits[i]

\* the following lines are scanned only when nothing precedes the marker
Continuation_solo_sin_nombre(lines, j, last, nombre) ==
    IF nombre # <<>> THEN nombre
    ELSE IF j > last THEN <<>>
    ELSE LET elig == {i \in j..last :
                         \A k \in 1..Len(lines[i]) :
                             /\ ~IsReceptor(lines[i][k])
                             /\ ~HasOriginal(lines[i][k])
                             /\ ~HasLiquid(lines[i][k])
                             /\ ~IsNumeroMark(lines[i][k])
                             /\ ~HasCod(lines[i][k])}
         IN  IF elig = {} THEN <<>>
             ELSE lines[CHOOSE i \in elig : \A k \in elig : i <= k]

\* The continuation loop of parser.py:171-184 from line j on, up to line
\* last: the name with the first eligible line appended.
RECURSIVE Continuation(_, _, _, _)
Continuation(lines, j, last, nombre) ==
    IF j > last THEN nombre
    ELSE LET cand == lines[j]
         IN  IF StartsFecha(cand[1]) THEN nombre
             ELSE IF AnyHit([i \in 1..Len(cand) |-> HasCuitOrIibb(cand[i])])
             THEN nombre
             ELSE IF AnyHit([i \in 1..Len(cand) |->
                                   \/ IsReceptor(cand[i])
                                   \/ HasOriginal(cand[i])
                                   \/ HasLiquid(cand[i])
                                   \/ IsNumeroMark(cand[i])
                                   \/ HasCod(cand[i])])
             THEN Continuation(lines, j + 1, last, nombre)
             ELSE nombre \o cand

\* re.sub(r"\s+Fecha\b.*$", "", nombre.strip()), parser.py:188
CutAtFecha(nombre) ==
    LET f == FirstIdx([i \in 1..Len(nombre) |-> i >= 2 /\ StartsFecha(nombre[i])])
    IN  IF f = 0 THEN nombre ELSE SubSeq(nombre, 1, f - 1)

\* The name of the issuer, parser.py:157-188, as the texts of its tokens
EmisorNombre(emisor_block) ==
    LET lines == SplitLines(emisor_block)
        idx_cod == FirstIdx([i \in 1..Len(lines) |->
                       AnyHit([k \in 1..Len(lines[i]) |-> HasCod(lines[i][k])])])
        ln_cod == lines[idx_cod]
        m_cod == FirstIdx(KindAt(ln_cod, "cod"))
        pre == IF m_cod = 0 THEN <<>> ELSE SubSeq(ln_cod, 1, m_cod - 1)
        nombre0 == IF /\ pre # <<>>
                      /\ ~AnyHit([k \in 1..Len(pre) |->
                                       HasOriginal(pre[k]) \/ HasLiquid(pre[k])])
                   THEN pre ELSE <<>>
        last == IF idx_cod + 3 < Len(lines) THEN idx_cod + 3 ELSE Len(lines)
        nombre1 == IF idx_cod = 0 THEN <<>>
                   ELSE Continuation(lines, idx_cod + 1, last, nombre0)
        nombre == IF nombre1 # <<>> THEN nombre1
                  ELSE FindTok(emisor_block, "razon")
    IN  IF nombre1 # <<>> THEN TokTexts(CutAtFecha(nombre1))
        ELSE IF nombre = <<>> THEN <<>> ELSE <<nombre[1].s>>

\* _find_one on a labelled field: the text of its group, "" when not found
FindField(block, k) ==
    IF FindTok(block, k) = <<>> THEN "" ELSE FindTok(block, k)[1].s

parse_parties(text) ==
    LET m_rec == FirstIdx([i \in 1..Len(text) |-> IsReceptor(text[i])])
        emisor_block == IF m_rec = 0 THEN text ELSE SubSeq(text, 1, m_rec - 1)
        receptor_block == IF m_rec = 0 THEN <<>> ELSE SubSeq(text, m_rec, Len(text))
        m == FirstIdx(KindAt(receptor_block, "fechaop"))
        rb == IF m = 0 THEN receptor_block ELSE SubSeq(receptor_block, 2, m - 1)
        nombre_rec == FindField(rb, "razon")
    IN  [emisor |->
             Party(FindField(emisor_block, "cuitlbl"),
                   EmisorNombre(emisor_block),
                   FindField(emisor_block, "condiva"),
                   condicion_iva_abreviar(Chars(FindField(emisor_block, "condiva"))),
                   FindField(emisor_block, "iibb")),
         receptor |->
             Party(FindField(rb, "cuitlbl"),
                   IF nombre_rec = "" THEN <<>> ELSE <<nombre_rec>>,
                   FindField(rb, "situacion"),
                   condicion_iva_abreviar(Chars(FindField(rb, "situacion"))),
                   FindField(rb, "nroiibb"))]

(***************************************************************************)
(* parse_retenciones, parser.py:229-257.                                   *)
(*                                                                         *)
(*   ret    : a withholding with its amount (s the label the pattern       *)
(*            gives it, n the amount)                                      *)
(*   retmal : a withholding whose amount is not a number, "1.2.3"          *)
(***************************************************************************)
Ret(label, n) == Tok("ret", label, n)
RetMal(label) == Tok("retmal", label, 0)

RetLabels == <<"Ret. Ganancias", "Ret. Imp. Nacionales">>

\* parse_money(m.group(1)) or 0.0, parser.py:241
RetAmount(t) == IF t.k = "ret" THEN t.n ELSE 0

\* The sum of the amounts of the label, parser.py:240-243
RECURSIVE SumRet(_, _)
SumRet(text, label) ==
    IF text = <<>> THEN 0
    ELSE (IF Head(text).k \in {"ret", "retmal"} /\ Head(text).s = label
          THEN RetAmount(Head(text)) ELSE 0) + SumRet(Tail(text), label)

\* One pair per label that has an amount other than zero, parser.py:245-250.
\* The patterns are tried in the order of the labels.
parse_retenciones(text) ==
    LET has(label) == \E i \in 1..Len(text) :
                          /\ text[i].k \in {"ret", "retmal"}
                          /\ text[i].s = label
                          /\ RetAmount(text[i]) # 0
        pair(n) == IF has(RetLabels[n])
                   THEN << <<RetLabels[n], SumRet(text, RetLabels[n])>> >>
                   ELSE <<>>
    IN  pair(1) \o pair(2)

(***************************************************************************)
(* tipo_interno_por_cod, rules.py:75-98.                                   *)
(***************************************************************************)
\* tipo_interno_por_cod whose credit test leaves the word "AJUSTE" out
tipo_interno_por_cod_sin_ajuste(cod_arca, texto) ==
    LET t == Upper(texto)
        credito == HasCredito(t)
    IN  IF cod_arca \in {186, 188} THEN (IF credito THEN "CN" ELSE "CD")
        ELSE IF cod_arca = 180 THEN (IF credito THEN "LA" ELSE "CV")
        ELSE IF cod_arca \in {183, 185} THEN (IF credito THEN "LN" ELSE "LC")
        ELSE IF cod_arca \in {190, 191} THEN (IF credito THEN "CN" ELSE "VC")
        ELSE "OTRO"

tipo_interno_por_cod(cod_arca, texto) ==
    LET t == Upper(texto)
        credito == Contains(t, K_AJUSTE) /\ HasCredito(t)
    IN  IF cod_arca \in {186, 188} THEN (IF credito THEN "CN" ELSE "CD")
        ELSE IF cod_arca = 180 THEN (IF credito THEN "LA" ELSE "CV")
        ELSE IF cod_arca \in {183, 185} THEN (IF credito THEN "LN" ELSE "LC")
        ELSE IF cod_arca \in {190, 191} THEN (IF credito THEN "CN" ELSE "VC")
        ELSE "OTRO"

(***************************************************************************)
(* parse_pdf, parser.py:609-642: the line items of the ParsedDoc.          *)
(***************************************************************************)

\* `a or b` on two lists with both operands joined
Or_concatenado(a, b) == a \o b

\* `a or b` on two lists, parser.py:617: b is evaluated only when a is empty
Or(a, b) == IF a # <<>> THEN a ELSE b

\* int(hdr.get("cod_arca") or 0), parser.py:612
CodArcaOf(hdr) == IF hdr.cod_arca = <<>> THEN 0 ELSE IntOf(hdr.cod_arca)

\* The ParsedDoc that parse_pdf builds from a readable document,
\* parser.py:609-642.
parse_pdf(pdf_path) ==
    LET text == pdf_path.text
        hdr == parse_header(text)
        cod_arca == CodArcaOf(hdr)
        tot == parse_totales(text)
    IN  [returned |-> TRUE,
         filename |-> pdf_path.name,
         cod_arca |-> cod_arca,
         letra |-> hdr.letra,
         pv |-> hdr.pv,
         numero |-> hdr.numero,
         titulo |-> hdr.titulo,
         fecha |-> hdr.fecha,
         fecha_operacion |-> hdr.fecha_operacion,
         emisor |-> parse_parties(text).emisor,
         receptor |-> parse_parties(text).receptor,
         tipo_interno |-> tipo_interno_por_cod(cod_arca, TextChars(text)),
         ajuste |-> detectar_ajuste(TextChars(text)),
         importe_bruto |-> tot.importe_bruto,
         iva_bruto |-> tot.iva_bruto,
         total_gastos |-> tot.total_gastos,
         iva_gastos |-> tot.iva_gastos,
         importe_neto |-> tot.importe_neto,
         retenciones |-> parse_retenciones(text),
         items |-> Or(parse_items_from_pdf(pdf_path), parse_items(text)),
         gastos |-> parse_gastos(text)]

\* Largest number of physical lines between the two markers
MaxDataLines == 2

RowNovillo ==
    <<W("Novillo"), I(50), UM("Cabeza"), M(45000), M(9500000), M(1050), M(997500)>>

DataLinePool ==
    { RowNovillo,
      <<W("Vaca"), I(20), UM("Kg Vivo"), I(8000), M(250), M(2000000),
        M(1050), M(210000)>>,
      <<W("Toro"), UM("Cabeza"), I(3), M(30000), M(90000)>>,
      <<W("Brangus")>>,
      <<W("Ternero"), M(2100), M(50000)>>,
      <<W("Comisión"), M(50000), M(2100), M(10500)>>,
      <<W("Gastos")>> }

RECURSIVE JoinLines(_)
JoinLines(ls) ==
    IF ls = <<>> THEN <<>>
    ELSE IF Len(ls) = 1 THEN ls[1]
    ELSE ls[1] \o <<NLTok>> \o JoinLines(Tail(ls))

Total == <<Lbl, Peso, M(9500000)>>

\* The text of a document around its data lines: both markers in order, the
\* label before the header, one marker missing, both missing.
Layouts(ls) ==
    { JoinLines(<<<<W("Cliente"), Hdr, W("Cabezas")>>>> \o ls \o <<Total>>),
      JoinLines(<<Total, <<Hdr>>>> \o ls),
      JoinLines(<<<<Hdr>>>> \o ls),
      JoinLines(ls \o <<Total>>),
      JoinLines(ls) }

ItemTexts ==
    UNION { Layouts(ls) :
            ls \in UNION { [1..n -> DataLinePool] : n \in 0..MaxDataLines } }

\* The tables of each page of a document
PagesPool ==
    LET HeaderFull ==
            <<"Cliente", "Categoría/Raza", "Cabezas", "UM", "Cantidad", "$ UM",
              "$ Bruto", "% IVA", "$ IVA">>

        T_novillo ==
            << HeaderFull,
               <<W("Perez"), W("Novillo"), I(50), UM("Cabeza"), NoCell, M(45000),
                 M(9500000), M(1050), M(997500)>>,
               <<>>,
               <<NoCell, Cuit("Vaca"), I(20), W("Kgs"), I(8000), M(250), M(2000000),
                 NoCell, NoCell>> >>

        \* a bull whose unit price is above the VAT amount of the row
        T_toro ==
            << HeaderFull,
               <<NoCell, W("Toro"), I(1), UM("Cabeza"), NoCell, M(45000000),
                 M(45000000), M(1050), M(4725000)>> >>

        T_comision ==
            << HeaderFull,
               <<NoCell, W("Comisión"), NoCell, NoCell, NoCell, NoCell, M(50000),
                 M(2100), M(10500)>>,
               <<NoCell, NoCell, I(3), NoCell, NoCell, NoCell, NoCell, NoCell, NoCell>> >>

        \* the last row ends before the "$ Bruto" column
        T_corta ==
            << HeaderFull,
               <<W("Perez"), W("Novillo"), I(50), UM("Cabeza"), NoCell, M(45000),
                 M(9500000), M(1050), M(997500)>>,
               <<NoCell, W("Vaca"), I(20), UM("Kg Vivo")>> >>

        T_sin_cabezas ==
            << <<"Categoría/Raza", "UM", "$ Bruto">>,
               <<W("Novillo"), UM("Cabeza"), M(9500000)>> >>

        T_ternero ==
            << <<"Categoria/Raza", "Cabezas", "UM", "Bruto">>,
               <<W("Ternero"), M(500), UM("UN"), I(1000)>> >>

        T_otra == << <<"Concepto", "Importe">>, <<W("Flete"), M(50000)>> >>

        \* a row whose head count and quantity cells carry a minus sign
        T_signo ==
            << HeaderFull,
               <<NoCell, W("Novillo"), I(-5), UM("Cabeza"), M(-200050), M(45000),
                 M(9500000), M(1050), M(997500)>> >>

        \* the category cell holds the prefix "00000000000 - " and no more
        T_prefijo ==
            << HeaderFull,
               <<NoCell, Cuit(""), I(20), UM("Cabeza"), NoCell, M(45000),
                 M(900000), M(1050), M(94500)>> >>
    IN
        { <<>>,
          << <<>> >>,
          << <<T_prefijo>> >>,
          << <<T_novillo>> >>,
          << <<T_toro>> >>,
          << <<T_comision>> >>,
          << <<T_corta>> >>,
          << <<T_sin_cabezas>> >>,
          << <<T_signo>> >>,
          << <<T_otra, T_ternero>>, <<T_novillo>> >>,
          << <<T_otra>>, <<>>, <<T_novillo>> >> }

Unreadable == Pdf("a.pdf", FALSE, TRUE, <<>>, <<>>)

Pdfs ==
    { Pdf("a.pdf", TRUE, ok, p, t) :
      ok \in BOOLEAN, p \in PagesPool, t \in ItemTexts } \cup {Unreadable}

ItemsInit ==
    /\ pdf \in Pdfs
    /\ doc = NoDoc
    /\ tablaItems = NotCalled
    /\ textoItems = NotCalled
    /\ pPc = "start"
    /\ NormIdle
    /\ CondIdle
    /\ AjIdle
    /\ BuildIdle
    /\ BatchIdle
    /\ MergeIdle

\* pdfplumber.open fails in extract_full_text, parser.py:610, 135: the
\* exception leaves parse_pdf.
ParsePdfRaises ==
    /\ pPc = "start"
    /\ ~pdf.readable
    /\ pPc' = "raised"
    /\ UNCHANGED <<pdf, doc, tablaItems, textoItems>>
    /\ UNCHANGED <<normVars, condVars, ajVars, buildVars, batchVars, mergeVars>>

ParsePdf ==
    /\ pPc = "start"
    /\ pdf.readable
    /\ LET a == parse_items_from_pdf(pdf)
       IN  /\ tablaItems' = Returned(a)
           /\ textoItems' = IF a # <<>> THEN NotCalled
                            ELSE Returned(parse_items(pdf.text))
           /\ doc' = parse_pdf(pdf)
    /\ pPc' = "done"
    /\ UNCHANGED pdf
    /\ UNCHANGED <<normVars, condVars, ajVars, buildVars, batchVars, mergeVars>>

ItemsNext == ParsePdf \/ ParsePdfRaises

SpecItems == ItemsInit /\ [][ItemsNext]_vars

(***************************************************************************)
(* Properties of the line items (SpecItems)                                *)
(***************************************************************************)

\* The text of the worked example: the header line, the single row
\* "Novillo 50 Cabeza 450.00 95,000.00 10.50 9,975.00", the total label.
ScenarioText ==
    JoinLines(<< <<W("Cliente"), Hdr, W("Cabezas")>>, RowNovillo, Total >>)

ScenarioItem ==
    ItemHacienda(<<"Novillo">>, 50, 0, "Cabeza", 45000, 9500000,
                 Some(1050), Some(997500))

\* C2: on the worked example parse_items returns exactly one item: category
\* "Novillo", head count 50, unit "Cabeza", unit price 450.00, gross
\* 95,000.00, VAT rate 10.50, VAT amount 9,975.00 (the head count is the
\* quantity of the row, not the integer part of the price after the unit).
C2_ScenarioItem ==
    (pPc = "done" /\ textoItems.called /\ pdf.text = ScenarioText)
        => textoItems.items = <<ScenarioItem>>

\* gross amount >= VAT amount >= unit price, when a VAT rate is stored
VatOrdered(it) ==
    it.iva_pct.some =>
        /\ it.iva_importe.some
        /\ it.bruto >= it.iva_importe.v
        /\ it.iva_importe.v >= it.precio

\* C4 as claimed: every item of the ParsedDoc with a VAT rate has
\* gross >= VAT amount >= unit price, whichever strategy produced it.
C4_AsClaimed ==
    pPc = "done" => \A i \in 1..Len(doc.items) : VatOrdered(doc.items[i])

\* C4: every item of the ParsedDoc that the text strategy produced (the table
\* strategy having returned nothing) and that has a VAT rate has a VAT
\* amount, with gross >= VAT amount >= unit price.
C4_TextStrategyOrdered ==
    (pPc = "done" /\ textoItems.called)
        => /\ doc.items = textoItems.items
           /\ \A i \in 1..Len(doc.items) : VatOrdered(doc.items[i])

C4_Witness ==
    /\ pPc = "done"
    /\ textoItems.called
    /\ \E i \in 1..Len(doc.items) :
           /\ doc.items[i].iva_pct.some
           /\ doc.items[i].precio > 0
           /\ doc.items[i].iva_importe.v > doc.items[i].precio
           /\ doc.items[i].bruto > doc.items[i].iva_importe.v

\* The text lacks the header phrase, lacks the label, or has its first label
\* before its first header phrase.
MarkersMissing(text) ==
    \/ \A i \in 1..Len(text) : ~IsHdr(text[i])
    \/ \A i \in 1..Len(text) : ~IsLbl(text[i])
    \/ \E i \in 1..Len(text) :
           /\ IsLbl(text[i])
           /\ \A j \in 1..i : ~IsHdr(text[j])

HasDataRow(text) == \E i \in 1..Len(text) : text[i] = W("Novillo")

\* C6: parse_items returns the empty list, and raises nothing, whenever the
\* text lacks the header phrase, lacks the label, or has the first label
\* before the first header phrase.
C6_EmptyWithoutMarkers ==
    (pPc # "start" /\ pdf.readable /\ MarkersMissing(pdf.text))
        => /\ pPc = "done"
           /\ (textoItems.called => textoItems.items = <<>>)

C6_Witness ==
    /\ pPc = "done"
    /\ textoItems.called
    /\ MarkersMissing(pdf.text)
    /\ HasDataRow(pdf.text)
    /\ textoItems.items = <<>>

\* C7: the first non-empty result wins: when the table strategy returned an
\* item the ParsedDoc holds exactly its result and the text strategy is not
\* called; otherwise the ParsedDoc holds exactly the text strategy's result.
C7_FirstNonEmptyWins ==
    pPc = "done" =>
        /\ doc.returned
        /\ tablaItems.called
        /\ IF tablaItems.items # <<>>
           THEN doc.items = tablaItems.items /\ ~textoItems.called
           ELSE textoItems.called /\ doc.items = textoItems.items

\* the table strategy wins over a text that the text strategy can read too
C7_Witness ==
    /\ pPc = "done"
    /\ tablaItems.items # <<>>
    /\ doc.items = tablaItems.items
    /\ parse_items(pdf.text) # <<>>
    /\ parse_items(pdf.text) # tablaItems.items

(***************************************************************************)
(* _parse_uploaded, app.py:79-96: the batch of uploaded files.             *)
(*                                                                         *)
(* uploads holds the files of the two uploaders in the order the two calls *)
(* of _parse_uploaded read them (EMISOR first), each with the role label   *)
(* of its call.                                                            *)
(***************************************************************************)

\* Largest number of files in a batch
MaxFiles == 3

FileNames == {"a.pdf", "b.pdf"}

\* A file: a readable document with one table row, or an unreadable one
UploadedFiles ==
    { Pdf(n, r, TRUE, <<>>,
          JoinLines(<< <<Hdr>>, <<W("Toro"), UM("Cabeza"), I(3), M(90000)>>,
                       <<Lbl, M(90000)>> >>)) :
      n \in FileNames, r \in BOOLEAN }

Upload(uf, role_label) == [uf |-> uf, role_label |-> role_label]

Batches ==
    { [i \in 1..(Len(e) + Len(r)) |->
          IF i <= Len(e) THEN Upload(e[i], "EMISOR")
          ELSE Upload(r[i - Len(e)], "RECEPTOR")] :
      e \in UNION { [1..n -> UploadedFiles] : n \in 0..MaxFiles },
      r \in UNION { [1..n -> UploadedFiles] : n \in 0..MaxFiles } }

BatchInit ==
    /\ uploads \in { b \in Batches : Len(b) <= MaxFiles }
    /\ upIdx = 0
    /\ docs = <<>>
    /\ roles = [n \in FileNames |-> None]
    /\ errores = <<>>
    /\ NormIdle
    /\ CondIdle
    /\ AjIdle
    /\ BuildIdle
    /\ ItemsIdle
    /\ MergeIdle

\* the loop left at the first file that cannot be read
DespuesDeError_abandona(i, n) == n

\* The index of the loop after the except clause of app.py:92-93: the loop
\* goes on with the next file.
DespuesDeError(i, n) == i + 1

\* One iteration of the loop whose parse_pdf returns, app.py:85-91
ParseUploaded ==
    /\ upIdx < Len(uploads)
    /\ LET up == uploads[upIdx + 1]
       IN  /\ up.uf.readable
           /\ docs' = Append(docs, parse_pdf(up.uf))
           /\ roles' = [roles EXCEPT ![parse_pdf(up.uf).filename] = up.role_label]
    /\ upIdx' = upIdx + 1
    /\ UNCHANGED <<uploads, errores>>
    /\ UNCHANGED <<normVars, condVars, ajVars, buildVars, itemVars, mergeVars>>

\* One iteration of the loop whose parse_pdf raises, app.py:89, 92-93
ParseUploadedError ==
    /\ upIdx < Len(uploads)
    /\ LET up == uploads[upIdx + 1]
       IN  /\ ~up.uf.readable
           /\ errores' = Append(errores, up.uf.name)
    /\ upIdx' = DespuesDeError(upIdx, Len(uploads))
    /\ UNCHANGED <<uploads, docs, roles>>
    /\ UNCHANGED <<normVars, condVars, ajVars, buildVars, itemVars, mergeVars>>

BatchNext == ParseUploaded \/ ParseUploadedError

SpecBatch == BatchInit /\ [][BatchNext]_vars

\* The files read so far, and those of them that parse_pdf could read
Leidos == SubSeq(uploads, 1, upIdx)
Parseados == SelectSeq(Leidos, LAMBDA up : up.uf.readable)

\* C11: a failure of parse_pdf on one file does not affect the others: the
\* documents are those of the files read so far whose parse succeeded, in
\* upload order, each appended with the role of its upload, whether a failing
\* file comes before or after it; every file read is either appended or
\* reported, so the loop reaches the last file.
C11_FailureIsolated ==
    /\ upIdx <= Len(uploads)
    /\ Len(docs) = Len(Parseados)
    /\ \A j \in 1..Len(docs) : docs[j].filename = Parseados[j].uf.name
    /\ docs # <<>> =>
           roles[docs[Len(docs)].filename] = Parseados[Len(docs)].role_label
    /\ Len(docs) + Len(errores) = upIdx

\* a batch read to its end, with a failing file between two good ones
C11_Witness ==
    /\ upIdx = Len(uploads)
    /\ Len(uploads) = 3
    /\ uploads[1].uf.readable
    /\ ~uploads[2].uf.readable
    /\ uploads[3].uf.readable
    /\ Len(docs) = 2

\* build_outputs: role = roles.get(d.filename, "RECEPTOR"), processor.py:84
RoleInBuild(d) ==
    IF roles[d.filename] = None THEN "RECEPTOR" ELSE roles[d.filename]

(***************************************************************************)
(* C28: every document of a batch that was parsed is classified in         *)
(* build_outputs under the role of the uploader its file came through,     *)
(* for every sequence of uploads, a file name submitted through both       *)
(* uploaders included.                                                     *)
(***************************************************************************)
C28_RoleOfUploader ==
    upIdx = Len(uploads) =>
        \A j \in 1..Len(docs) : RoleInBuild(docs[j]) = Parseados[j].role_label

\* What holds: the role of a document is that of the last parsed upload of
\* its file name, so the claim holds for the batches whose parsed files
\* never share a name across the two uploaders.
C28_RoleOfLastUpload ==
    upIdx = Len(uploads) =>
        /\ Len(docs) = Len(Parseados)
        /\ \A j \in 1..Len(docs) :
               LET same == { k \in 1..Len(docs) :
                               docs[k].filename = docs[j].filename }
                   last == CHOOSE k \in same : \A m \in same : m <= k
               IN  RoleInBuild(docs[j]) = Parseados[last].role_label

(***************************************************************************)
(* Whole documents (SpecDoc): parse_pdf on texts that vary the totals.     *)
(***************************************************************************)
TotLabels ==
    <<"Importe Bruto:", "IVA s/Bruto:", "Total Gastos:", "IVA s/Gastos:",
      "Importe Neto:">>

\* The amount each label carries in the test documents, in cents
TotValues == <<9500000, 997500, 50000, 1050, 10447500>>

\* How a label appears: 0 not at all; 1 with its amount; 2 alone, with "$"
\* and the amount on the next line; 3 with an integer and again with an
\* amount; 4 without amount.
TotChoices == 0..4

TotalLines(label, v, c) ==
    CASE c = 0 -> <<>>
      [] c = 1 -> << <<LabelTok(label), M(v)>> >>
      [] c = 2 -> << <<LabelTok(label)>>, <<Peso, M(v)>> >>
      [] c = 3 -> << <<LabelTok(label), I(7)>>, <<LabelTok(label), M(v + 1)>> >>
      [] c = 4 -> << <<LabelTok(label)>> >>

RECURSIVE TotalesLines(_, _)
TotalesLines(ch, n) ==
    IF n > Len(TotLabels) THEN <<>>
    ELSE TotalLines(TotLabels[n], TotValues[n], ch[n]) \o TotalesLines(ch, n + 1)

TotalesTexts ==
    { JoinLines(<< <<Hdr>>, RowNovillo >> \o TotalesLines(ch, 1)) :
      ch \in [1..Len(TotLabels) -> TotChoices] }

\* Largest number of lines in the expense block of a test document
MaxGastoLines == 2

\* Expense lines: base, rate, amount, VAT rate, VAT amount; one amount; only
\* VAT-rate literals; no amount at all; an amount and a VAT amount that
\* reads like the rate literal 10.50.
GastoLinePool ==
    { <<W("Comisión"), M(9500000), M(300), M(28500), M(2100), M(5985)>>,
      <<W("Flete"), M(50000)>>,
      <<W("Sellado"), M(1050), M(2100)>>,
      <<W("Guías"), I(3)>>,
      <<W("Garantía"), M(10000), M(1050), M(1050)>> }

\* The header line of the expense block: none, with column titles, alone
GastosHeaders ==
    { <<>>,
      << <<W("Gastos"), W("Base"), W("Importe"), W("IVA")>> >>,
      << <<W("Gastos")>> >> }

\* Item rows of the test documents: a full row; a row with a VAT rate and
\* one amount; a row with two amounts and no rate; a row with no amount.
DocItemRows ==
    { << RowNovillo >>,
      << RowNovillo, <<W("Vaquillona"), M(50000), M(90000)>> >>,
      << RowNovillo, <<W("Ternero"), M(2100), M(50000)>> >>,
      << <<W("Ternero"), M(2100), M(50000)>>,
         <<W("Vaquillona"), M(50000), M(90000)>> >>,
      << <<W("Oveja"), UM("UN"), I(4)>>,
         <<W("Vaquillona"), M(50000), M(90000)>>,
         <<W("Ternero"), M(2100), M(50000)>> >> }

GastosTexts ==
    { JoinLines(<< <<Hdr>> >> \o rs \o hs \o ls \o tl) :
      rs \in DocItemRows,
      hs \in GastosHeaders,
      ls \in UNION { [1..n -> GastoLinePool] : n \in 0..MaxGastoLines },
      tl \in { <<>>, <<Total>> } }

\* A text with two item rows and two expense lines, under every set of tables
TablePdfs ==
    { Pdf("a.pdf", TRUE, ok, p,
          JoinLines(<< <<Hdr>>, RowNovillo,
                       <<W("Vaquillona"), M(50000), M(90000)>>,
                       <<W("Gastos"), W("Base"), W("Importe"), W("IVA")>>,
                       <<W("Flete"), M(50000)>>,
                       <<W("Comisión"), M(9500000), M(300), M(28500), M(2100),
                         M(5985)>>,
                       Total >>)) :
      ok \in BOOLEAN, p \in PagesPool }

\* The lines that carry the header, the parties, the adjustment and the
\* withholdings of a test document, in document order
HeaderLinePool ==
    << <<W("ACME"), W("SA"), Cod(180)>>,
       <<Orig("A"), W("LIQUIDACIÓN"), W("DE"), W("COMPRA"), Nro("00001", 123)>>,
       <<Fecha("01/02/2024")>>,
       <<CuitLbl("20123456789")>>,
       <<CondIva("Responsable Inscripto")>>,
       <<Iibb("921-1")>>,
       <<W("Receptor")>>,
       <<Razon("PEREZ JUAN"), Situacion("Monotributo")>>,
       <<FechaOp("03/02/2024")>>,
       <<W("AJUSTE"), W("CRÉDITO")>>,
       <<Ret("Ret. Ganancias", 1050)>> >>

\* The lines of the pool that sel keeps, from the n-th on
RECURSIVE Chosen(_, _)
Chosen(sel, n) ==
    IF n > Len(HeaderLinePool) THEN <<>>
    ELSE (IF sel[n] THEN <<HeaderLinePool[n]>> ELSE <<>>) \o Chosen(sel, n + 1)

\* The item rows, the expense block and the five totals of a test document
BodyLines ==
    << <<Hdr>>, RowNovillo,
       <<W("Gastos"), W("Base"), W("Importe"), W("IVA")>>,
       <<W("Flete"), M(50000)>> >>
        \o TotalesLines([n \in 1..Len(TotLabels) |-> 1], 1)

\* Every subset of the header lines, with and without the body; the text
\* with no line selected and no body is the empty text.
HeaderTexts ==
    { JoinLines(Chosen(sel, 1) \o body) :
      sel \in [1..Len(HeaderLinePool) -> BOOLEAN],
      body \in { <<>>, BodyLines } }

\* Largest number of lines after the line of the code marker
MaxFollowing == 4

\* The line of the code marker: a name before the marker; the marker alone;
\* a caption before the marker; the marker without its digits.
CodLinePool ==
    { <<W("ACME"), W("SA"), Cod(180)>>,
      <<Cod(180)>>,
      <<Orig("A"), Cod(180)>>,
      <<W("ACME"), W("Cód.")>> }

\* The lines after it: the rest of a name, a date, a tax id, a caption, the
\* rest of a name with a date behind it.
FollowingPool ==
    { <<W("ANONIMA")>>,
      <<Fecha("01/02/2024")>>,
      <<CuitLbl("20123456789")>>,
      <<Orig("A"), W("LIQUIDACIÓN"), Nro("00001", 123)>>,
      <<W("SRL"), Fecha("01/02/2024")>> }

EmisorTexts ==
    { JoinLines(<<c>> \o ls) :
      c \in CodLinePool,
      ls \in UNION { [1..n -> FollowingPool] : n \in 0..MaxFollowing } }

\* Largest number of tables in a test document
MaxTables == 3

\* Tables that differ in their header and in the one item they hold: two
\* expected columns; the same score with another item; three expected
\* columns; all of them; none and no "Categoría/Raza"; two expected columns
\* and more blank rows than an expected column weighs.
ScoreTables ==
    LET row(cat) == <<W(cat), I(20), UM("Cabeza"), M(900000)>>
    IN  { << <<"Categoria/Raza", "Cabezas", "UM", "Bruto">>, row("Ternero") >>,
          << <<"Categoría/Raza", "Cabezas", "UM", "Bruto">>, row("Oveja") >>,
          << <<"Categoría/Raza", "Cabezas", "UM", "$ Bruto">>, row("Vaca") >>,
          << <<"Categoría/Raza", "Cabezas", "UM", "$ Bruto", "% IVA", "$ IVA">>,
             row("Novillo") \o <<M(1050), M(94500)>> >>,
          << <<"Concepto", "Cabezas", "UM", "$ Bruto">>, row("Flete") >>,
          << <<"Categoría/Raza", "Cabezas", "UM", "Bruto">>, row("Toro") >>
              \o [i \in 1..(ScoreWeight + 1) |-> <<>>] }

\* The tables all on the first page, or one on each page
ScorePages ==
    UNION { { <<ts>>, [i \in 1..Len(ts) |-> <<ts[i]>>] } :
            ts \in UNION { [1..n -> ScoreTables] : n \in 0..MaxTables } }

ScorePdfs ==
    { Pdf("a.pdf", TRUE, TRUE, p, JoinLines(<< <<Hdr>>, RowNovillo, Total >>)) :
      p \in ScorePages }

DocPdfs ==
    { Pdf("a.pdf", TRUE, TRUE, <<>>, t) :
      t \in TotalesTexts \cup GastosTexts \cup HeaderTexts \cup EmisorTexts }
        \cup TablePdfs \cup ScorePdfs \cup {Unreadable}

DocInit ==
    /\ pdf \in DocPdfs
    /\ doc = NoDoc
    /\ tablaItems = NotCalled
    /\ textoItems = NotCalled
    /\ pPc = "start"
    /\ NormIdle
    /\ CondIdle
    /\ AjIdle
    /\ BuildIdle
    /\ BatchIdle
    /\ MergeIdle

SpecDoc == DocInit /\ [][ItemsNext]_vars

TotalOf(d, label) ==
    CASE label = "Importe Bruto:" -> d.importe_bruto
      [] label = "IVA s/Bruto:" -> d.iva_bruto
      [] label = "Total Gastos:" -> d.total_gastos
      [] label = "IVA s/Gastos:" -> d.iva_gastos
      [] label = "Importe Neto:" -> d.importe_neto

\* The places of the text where the label is followed by an amount
ValuedAt(text, label) ==
    {i \in 1..Len(text) : text[i] = LabelTok(label) /\ ValueAfter(text, i) # 0}

\* The text without the other labels and the amounts that follow them
RECURSIVE WithoutOtherLabels(_, _)
WithoutOtherLabels(text, label) ==
    IF text = <<>> THEN <<>>
    ELSE IF Head(text).k \in {"lbl", "tot"} /\ Head(text) # LabelTok(label)
    THEN LET k == ValueAfter(text, 1)
         IN  WithoutOtherLabels(
                 SubSeq(text, IF k = 0 THEN 2 ELSE k + 1, Len(text)), label)
    ELSE <<Head(text)>> \o WithoutOtherLabels(Tail(text), label)

\* C15: each of the five totals of the ParsedDoc is the first amount that
\* follows its own label, or 0.0 when no occurrence of its label is followed
\* by an amount, and it is the same as in the text from which every other
\* label, with its amount, is taken out.
C15_TotalsIndependent ==
    pPc = "done" =>
        \A n \in 1..Len(TotLabels) :
            LET label == TotLabels[n]
                at == ValuedAt(pdf.text, label)
                total == TotalOf(doc, label)
                first == CHOOSE i \in at : \A j \in at : i <= j
            IN  /\ total.some
                /\ at = {} => total.v = 0
                /\ at # {} => total.v = pdf.text[ValueAfter(pdf.text, first)].n
                /\ total = TotalOf(parse_totales(
                               WithoutOtherLabels(pdf.text, label)), label)

\* a label without amount between two labels with one, and a label whose
\* first occurrence carries no amount
C15_Witness ==
    /\ pPc = "done"
    /\ doc.importe_bruto = Some(9500000)
    /\ TotLbl("IVA s/Bruto:") \in {pdf.text[i] : i \in 1..Len(pdf.text)}
    /\ doc.iva_bruto = Some(0)
    /\ doc.total_gastos = Some(50001)
    /\ doc.iva_gastos = Some(1050)
    /\ doc.importe_neto = Some(0)

\* The amounts of gasto g are the last non-rate monetary tokens of line ln:
\* its amount is the second-to-last with the last as VAT amount, or it is
\* the only one and there is no VAT amount.
AmountsFromLast(g, ln) ==
    \E a \in 1..Len(ln) :
        LET amounts == {b \in 1..Len(ln) :
                           ln[b].k = "money" /\ ln[b].n \notin {1050, 2100, 2700, 0}}
            after == {b \in amounts : b > a}
        IN  /\ a \in amounts
            /\ g.importe = ln[a].n
            /\ \/ /\ Cardinality(after) = 1
                  /\ \E b \in after : g.iva_importe = Some(ln[b].n)
               \/ /\ amounts = {a}
                  /\ g.iva_importe = NoNumber

\* C16: every expense of the ParsedDoc comes from a line of the text whose
\* last non-rate monetary tokens are its amounts: second-to-last and last
\* when the line has two or more, the only one (and no VAT amount) when it
\* has one; a VAT-rate literal is never an amount.
C16_GastoAmounts ==
    pPc = "done" =>
        \A i \in 1..Len(doc.gastos) :
            \E n \in 1..Len(SplitLines(pdf.text)) :
                LET ln == SplitLines(pdf.text)[n]
                IN  /\ doc.gastos[i].concepto = <<CellText(ln[1])>>
                    /\ AmountsFromLast(doc.gastos[i], ln)

\* a line with four amounts and a rate, and a line whose VAT amount reads
\* like a rate literal
C16_Witness ==
    /\ pPc = "done"
    /\ Len(doc.gastos) = 2
    /\ doc.gastos[1] = Gasto(<<"Comisión">>, 28500, Some(2100), Some(5985))
    /\ doc.gastos[2] = Gasto(<<"Garantía">>, 10000, Some(1050), NoNumber)

\* A reconstructed row with too few monetary values: a VAT rate and fewer
\* than two, or no VAT rate and none.
Ambiguous(row) ==
    LET rate == \E i \in 1..Len(row) :
                    row[i].k = "money" /\ row[i].n \in {1050, 2100, 2700, 0}
        amounts == {i \in 1..Len(row) :
                       row[i].k = "money" /\ row[i].n \notin {1050, 2100, 2700, 0}}
    IN  \/ rate /\ Cardinality(amounts) < 2
        \/ ~rate /\ amounts = {}

\* A row that the category filters drop: no category text, or the category
\* of an expense.
FilteredOut(row) ==
    \/ _text_only_category(row) = <<>>
    \/ IsNonLivestock(_text_only_category(row))

ItemRow(row) == ~Ambiguous(row) /\ ~FilteredOut(row)
GastoLine(ln) == \E i \in 1..Len(ln) : IsMoneyTok(ln[i])

\* C17: a reconstructed row with too few monetary values gives no item and
\* an expense line without monetary token gives no expense, while every
\* other row gives its item and every other line its expense, in place, and
\* parse_pdf does not raise.
C17_AmbiguousLineDroppedAlone ==
    /\ pdf.readable => pPc # "raised"
    /\ (pPc = "done" /\ textoItems.called) =>
           LET rows == SelectSeq(Merged(pdf.text), ItemRow)
               lines == SelectSeq(SplitLines(GastosBlock(pdf.text)), GastoLine)
           IN  /\ Len(doc.items) = Len(rows)
               /\ \A i \in 1..Len(rows) :
                      doc.items[i].categoria = _text_only_category(rows[i])
               /\ Len(doc.gastos) = Len(lines)
               /\ \A i \in 1..Len(lines) :
                      doc.gastos[i].concepto = <<CellText(lines[i][1])>>

\* an item row between two ambiguous rows, an expense line after a line
\* without amount
C17_Witness ==
    /\ pPc = "done"
    /\ textoItems.called
    /\ Len(Merged(pdf.text)) = 3
    /\ Ambiguous(Merged(pdf.text)[1])
    /\ Ambiguous(Merged(pdf.text)[3])
    /\ Len(doc.items) = 1
    /\ doc.items[1].categoria = <<"Vaquillona">>
    /\ Len(SplitLines(GastosBlock(pdf.text))) = 2
    /\ ~GastoLine(SplitLines(GastosBlock(pdf.text))[1])
    /\ Len(doc.gastos) = 1
    /\ doc.gastos[1].concepto = <<"Flete">>

\* a is b with some elements left out: the elements of a appear in b in
\* the same order, each at a place of its own
RECURSIVE IsSubsequence(_, _)
IsSubsequence(a, b) ==
    IF a = <<>> THEN TRUE
    ELSE IF b = <<>> THEN FALSE
    ELSE IF Head(a) = Head(b) THEN IsSubsequence(Tail(a), Tail(b))
    ELSE IsSubsequence(a, Tail(b))

\* The words of a sequence of tokens or cells, in reading order
WordsOf(toks) ==
    LET ws == SelectSeq(toks, LAMBDA t : t.k \in {"word", "cuit"})
    IN  [i \in 1..Len(ws) |-> ws[i].s]

\* The cells of the data rows of the tables, in reading order
RECURSIVE CellsOf(_)
CellsOf(rows) ==
    IF rows = <<>> THEN <<>> ELSE Head(rows) \o CellsOf(Tail(rows))

RECURSIVE TableCells(_)
TableCells(tables) ==
    IF tables = <<>> THEN <<>>
    ELSE (IF Head(tables) = <<>> THEN <<>> ELSE CellsOf(Tail(Head(tables))))
             \o TableCells(Tail(tables))

\* C18: the items of the ParsedDoc follow the order of the rows of the
\* document (of the tables when the table strategy gave them, of the text
\* otherwise) and its expenses the order of the lines of the text: the first
\* words of their categories, and of their concepts, appear in the document
\* in that order, each at a place of its own.  An item whose category is
\* empty has no word to be found by.
C18_DocumentOrder ==
    pPc = "done" =>
        LET Named(it) == it.categoria # <<>>
            named == SelectSeq(doc.items, Named)
            cats == [i \in 1..Len(named) |-> named[i].categoria[1]]
            concs == [i \in 1..Len(doc.gastos) |-> doc.gastos[i].concepto[1]]
        IN  /\ IF tablaItems.items # <<>>
               THEN IsSubsequence(cats, WordsOf(TableCells(TablesOf(pdf.pages))))
               ELSE IsSubsequence(cats, WordsOf(pdf.text))
            /\ IsSubsequence(concs, WordsOf(pdf.text))

\* two items from the text and two expenses
C18_Witness ==
    /\ pPc = "done"
    /\ textoItems.called
    /\ Len(doc.items) = 2
    /\ doc.items[1].categoria # doc.items[2].categoria
    /\ Len(doc.gastos) = 2
    /\ doc.gastos[1].concepto # doc.gastos[2].concepto

\* two items from a table
C18_WitnessTable ==
    /\ pPc = "done"
    /\ ~textoItems.called
    /\ Len(doc.items) = 2
    /\ doc.items[1].categoria # doc.items[2].categoria

(***************************************************************************)
(* Properties of normalize_text on one call (SpecNorm)                     *)
(***************************************************************************)
CountOf(t, c) == Cardinality({k \in 1..Len(t) : t[k] = c})

\* A line break between a digit or "." on its left and a digit on its
\* right, blanks and line breaks aside: the only ones a join may remove.
InNumber(t, k) ==
    /\ t[k] = NL
    /\ \E a \in 1..(k - 1) :
           /\ t[a] \in Digits \cup {"."}
           /\ \A j \in (a + 1)..(k - 1) : t[j] \in SpaceChars
    /\ \E b \in (k + 1)..Len(t) :
           /\ t[b] \in Digits
           /\ \A j \in (k + 1)..(b - 1) : t[j] \in SpaceChars

\* No number broken across a line boundary is left in t
NoBrokenNumber(t) ==
    \A s \in 1..Len(t) :
        BrokenDecimalsAt(t, s) = <<>> /\ BrokenLastDigitAt(t, s) = <<>>

\* Runs of spaces and tabs have become one space
BlanksCollapsed(t) ==
    /\ \A k \in 1..Len(t) : t[k] # TAB
    /\ \A k \in 1..(Len(t) - 1) : ~(t[k] = " " /\ t[k + 1] = " ")

\* The line breaks outside numbers are all kept
LineBreaksKept(in, out) ==
    CountOf(out, NL) >=
        Cardinality({k \in 1..Len(in) : in[k] = NL /\ ~InNumber(in, k)})

\* "1,876,895.\n78" gives "1,876,895.78"
ScenarioJoined ==
    normalize_text(<<"1", ",", "8", "7", "6", ",", "8", "9", "5", ".", NL,
                     "7", "8">>)
        = <<"1", ",", "8", "7", "6", ",", "8", "9", "5", ".", "7", "8">>

\* C14: after one call of normalize_text no number broken across a line
\* boundary is left (digits and commas ending in "." followed on the next
\* line by 1-3 digits, or one decimal digit followed on the next line by a
\* single digit), "1,876,895.\n78" has become "1,876,895.78", runs of
\* spaces and tabs are one space and every line break outside a broken
\* number is kept.
C14_JoinsBrokenNumbers ==
    normCalls = 1 =>
        /\ NoBrokenNumber(normTxt)
        /\ ScenarioJoined
        /\ BlanksCollapsed(normTxt)
        /\ LineBreaksKept(normPrev, normTxt)

\* What holds of C14 on every text: the worked example, the blanks and the
\* line breaks.
C14_OtherParts ==
    normCalls = 1 =>
        /\ ScenarioJoined
        /\ BlanksCollapsed(normTxt)
        /\ LineBreaksKept(normPrev, normTxt)

(***************************************************************************)
(* Invariants of the items of a ParsedDoc (SpecItems)                      *)
(***************************************************************************)
UmTags == {"Kg Vivo", "Cabeza", "Unidad", ""}

\* C19: every item of the ParsedDoc, from either strategy, has a unit of
\* measure out of "Kg Vivo", "Cabeza", "Unidad" and the empty tag.
C19_UmClosedSet ==
    pPc = "done" => \A i \in 1..Len(doc.items) : doc.items[i].um \in UmTags

\* What holds of C19: the items of the text strategy have a unit of measure
\* of the closed set.
C19_TextUmClosedSet ==
    (pPc = "done" /\ textoItems.called)
        => \A i \in 1..Len(doc.items) : doc.items[i].um \in UmTags

\* C20: every item of the ParsedDoc, from either strategy, has a gross
\* amount, a head count >= 0 and kilos >= 0.
C20_NonNegativeCounts ==
    pPc = "done" =>
        \A i \in 1..Len(doc.items) :
            /\ doc.items[i].bruto \in Int
            /\ doc.items[i].cabezas >= 0
            /\ doc.items[i].kilos >= 0

\* What holds of C20: the items of the text strategy have a head count and
\* kilos that are not negative, and a gross amount that is the largest
\* amount of the row.
C20_TextNonNegative ==
    (pPc = "done" /\ textoItems.called) =>
        \A i \in 1..Len(doc.items) :
            /\ doc.items[i].bruto > 0
            /\ doc.items[i].cabezas >= 0
            /\ doc.items[i].kilos >= 0

(***************************************************************************)
(* The defaults of the ParsedDoc (SpecDoc)                                  *)
(***************************************************************************)

\* The fields of a ParsedDoc, parser.py:105-128
DocFields ==
    {"returned", "filename", "cod_arca", "letra", "pv", "numero", "titulo",
     "fecha", "fecha_operacion", "emisor", "receptor", "tipo_interno",
     "ajuste", "importe_bruto", "iva_bruto", "total_gastos", "iva_gastos",
     "importe_neto", "retenciones", "items", "gastos"}

PartyFields == {"cuit", "nombre", "cond_iva_raw", "cond_iva", "iibb"}

\* No token of the text is of kind k: the pattern of that field finds nothing
Missing(text, k) == \A i \in 1..Len(text) : text[i].k # k

\* No token of the text is the word s
NoWord(text, s) == \A i \in 1..Len(text) : text[i] # W(s)

\* The defaults of the header fields, of the parties and of the adjustment
HeaderDefaults(text, d) ==
    /\ Missing(text, "cod") => d.cod_arca = 0 /\ d.tipo_interno = "OTRO"
    /\ Missing(text, "orig") => d.letra = ""
    /\ Missing(text, "nro") => d.pv = "" /\ d.numero = ""
    /\ Missing(text, "fecha") => d.fecha = ""
    /\ Missing(text, "fechaop") => d.fecha_operacion = ""
    /\ (Missing(text, "orig") \/ Missing(text, "nro"))
           => d.titulo = TokTexts(FirstLines(text))
    /\ text = <<>> => d.titulo = <<>>
    /\ NoWord(text, "AJUSTE") => d.ajuste = Ajuste(FALSE, None, None)

PartyDefaults(text, d) ==
    /\ Missing(text, "cuitlbl") => d.emisor.cuit = "" /\ d.receptor.cuit = ""
    /\ Missing(text, "condiva")
           => d.emisor.cond_iva_raw = "" /\ d.emisor.cond_iva = ""
    /\ Missing(text, "iibb") => d.emisor.iibb = ""
    /\ ((\A i \in 1..Len(text) : ~HasCod(text[i])) /\ Missing(text, "razon"))
           => d.emisor.nombre = <<>>
    /\ (Missing(text, "razon") \/ NoWord(text, "Receptor"))
           => d.receptor.nombre = <<>>
    /\ (Missing(text, "situacion") \/ NoWord(text, "Receptor"))
           => d.receptor.cond_iva_raw = "" /\ d.receptor.cond_iva = ""
    /\ (Missing(text, "nroiibb") \/ NoWord(text, "Receptor"))
           => d.receptor.iibb = ""

ListDefaults(source, d) ==
    /\ (Missing(source.text, "ret") /\ Missing(source.text, "retmal"))
           => d.retenciones = <<>>
    /\ (source.pages = <<>> /\ MarkersMissing(source.text)) => d.items = <<>>
    /\ NoWord(source.text, "Gastos") => d.gastos = <<>>

\* C12: parse_pdf raises only when the source cannot be read; for every
\* readable source it returns a ParsedDoc with every field set, in which a
\* field whose pattern finds nothing holds its default (the empty string, 0,
\* the empty list; for the title, the first three non-empty lines, which are
\* empty too when the text has none), and no total is None.
C12_DefaultsNeverRaise ==
    /\ pPc = "raised" => ~pdf.readable /\ doc = NoDoc
    /\ (pdf.readable /\ pPc # "start") =>
           /\ pPc = "done"
           /\ doc.returned
           /\ DOMAIN doc = DocFields
           /\ DOMAIN doc.emisor = PartyFields
           /\ DOMAIN doc.receptor = PartyFields
           /\ \A n \in 1..Len(TotLabels) :
                  /\ TotalOf(doc, TotLabels[n]).some
                  /\ ValuedAt(pdf.text, TotLabels[n]) = {}
                         => TotalOf(doc, TotLabels[n]) = Some(0)
           /\ HeaderDefaults(pdf.text, doc)
           /\ PartyDefaults(pdf.text, doc)
           /\ ListDefaults(pdf, doc)

\* a readable document in which some patterns match and the others do not:
\* letter and number are read while the code, the totals, the items, the
\* expenses, the withholdings and the recipient take their defaults
C12_Witness ==
    /\ pPc = "done"
    /\ pdf.readable
    /\ doc.letra = "A"
    /\ doc.numero = "00000123"
    /\ doc.emisor.cuit = "20123456789"
    /\ doc.cod_arca = 0
    /\ doc.fecha = ""
    /\ doc.receptor = Party("", <<>>, "", "", "")
    /\ doc.importe_neto = Some(0)
    /\ doc.retenciones = <<>>
    /\ doc.items = <<>>
    /\ doc.gastos = <<>>

\* the readable document without text: every field holds its default
C12_WitnessEmpty ==
    /\ pPc = "done"
    /\ pdf.readable
    /\ pdf.text = <<>>
    /\ doc.titulo = <<>>
    /\ doc.cod_arca = 0
    /\ doc.emisor = Party("", <<>>, "", "", "")
    /\ doc.importe_bruto = Some(0)

(***************************************************************************)
(* The fallback to the text strategy (SpecItems)                           *)
(***************************************************************************)

\* No table of the first two pages has a "Categoría/Raza" header
NoQualifyingTable(source) ==
    \A i \in 1..Len(TablesOf(FirstTwo(source.pages))) :
        LET t == TablesOf(FirstTwo(source.pages))[i]
        IN  t = <<>> \/ t[1] = <<>> \/ idx_of(t[1], H_CATEGORIA) = 0

\* extract_tables fails, or a row of the chosen table ends before a column
\* that is read from it (IndexError)
TableThrows(source) ==
    \/ ~source.tables_ok
    \/ LET best_table == BestTable(TablesOf(FirstTwo(source.pages)), <<>>, -1)
       IN  /\ best_table # <<>>
           /\ Columns(best_table[1]).cabezas # 0
           /\ Columns(best_table[1]).um # 0
           /\ Columns(best_table[1]).bruto # 0
           /\ TableRows(Tail(best_table), Columns(best_table[1])).raises

\* C13: when no table qualifies, or the table strategy throws inside, the
\* table strategy returns the empty list, parse_pdf returns normally, the
\* text strategy is called and the items of the ParsedDoc are
\* parse_items(text).
C13_FallbackToText ==
    (pPc # "start" /\ pdf.readable /\ (NoQualifyingTable(pdf) \/ TableThrows(pdf)))
        => /\ pPc = "done"
           /\ tablaItems = Returned(<<>>)
           /\ textoItems = Returned(parse_items(pdf.text))
           /\ doc.returned
           /\ doc.items = parse_items(pdf.text)

\* a table whose first row reads well and whose second row throws, over a
\* text that the text strategy reads
C13_Witness ==
    /\ pPc = "done"
    /\ pdf.tables_ok
    /\ ~NoQualifyingTable(pdf)
    /\ TableThrows(pdf)
    /\ doc.items # <<>>
    /\ doc.items = textoItems.items

\* extract_tables fails on a document whose table would have been read
C13_WitnessFacility ==
    /\ pPc = "done"
    /\ ~pdf.tables_ok
    /\ parse_items_from_pdf([pdf EXCEPT !.tables_ok = TRUE]) # <<>>
    /\ doc.items # <<>>
    /\ doc.items = textoItems.items

\* no table has the header, over a text that the text strategy reads
C13_WitnessNoTable ==
    /\ pPc = "done"
    /\ pdf.tables_ok
    /\ pdf.pages # <<>>
    /\ NoQualifyingTable(pdf)
    /\ doc.items # <<>>
    /\ doc.items = textoItems.items

\* The data rows of the selected table and its columns, parser.py:495-512;
\* no row when no table is selected or a required column is missing
SelectedTable(source) ==
    LET best_table == BestTable(TablesOf(FirstTwo(source.pages)), <<>>, -1)
        idx == IF best_table = <<>> THEN Columns(<<>>) ELSE Columns(best_table[1])
    IN  IF \/ best_table = <<>>
           \/ idx.categoria = 0
           \/ idx.cabezas = 0
           \/ idx.um = 0
           \/ idx.bruto = 0
        THEN [rows |-> <<>>, idx |-> idx]
        ELSE [rows |-> Tail(best_table), idx |-> idx]

\* A data row of the selected table raises
SomeRowRaises(source) ==
    LET t == SelectedTable(source)
    IN  \E i \in 1..Len(t.rows) : TableRow(t.rows[i], t.idx).raises

\* The items of the data rows of the selected table that do not raise
PartialItems(source) ==
    LET t == SelectedTable(source)
        outs == [i \in 1..Len(t.rows) |-> TableRow(t.rows[i], t.idx)]
        GaveItem(o) == o.items # <<>>
    IN  RowItems(SelectSeq(outs, GaveItem))

(***************************************************************************)
(* C30: the table strategy is all-or-nothing: when a data row of the       *)
(* selected table raises, parse_items_from_pdf returns the empty list,     *)
(* whatever items the other rows gave, and the items of the ParsedDoc are  *)
(* those of the text strategy, never a part of the table.                  *)
(***************************************************************************)
C30_AllOrNothing ==
    (pPc = "done" /\ pdf.tables_ok /\ SomeRowRaises(pdf)) =>
        /\ tablaItems = Returned(<<>>)
        /\ textoItems.called
        /\ doc.items = textoItems.items
        /\ textoItems.items = parse_items(pdf.text)

\* A row raises after another row gave an item, and the ParsedDoc holds the
\* items of the text strategy, which are not those of the table
C30_Witness ==
    /\ pPc = "done"
    /\ pdf.tables_ok
    /\ SomeRowRaises(pdf)
    /\ PartialItems(pdf) # <<>>
    /\ tablaItems = Returned(<<>>)
    /\ doc.items # <<>>
    /\ doc.items # PartialItems(pdf)

\* The same over a text that the text strategy cannot read: no item at all
C30_WitnessVacio ==
    /\ pPc = "done"
    /\ pdf.tables_ok
    /\ SomeRowRaises(pdf)
    /\ PartialItems(pdf) # <<>>
    /\ doc.items = <<>>

(***************************************************************************)
(* The name of the issuer (SpecDoc)                                        *)
(***************************************************************************)

\* The non-empty lines of the issuer segment: the text before "Receptor"
EmisorLines(text) ==
    LET m_rec == FirstIdx([i \in 1..Len(text) |-> IsReceptor(text[i])])
    IN  SplitLines(IF m_rec = 0 THEN text ELSE SubSeq(text, 1, m_rec - 1))

\* The first of the lines with the code marker, 0 when none
CodLineOf(lines) ==
    FirstIdx([i \in 1..Len(lines) |->
                 \E k \in 1..Len(lines[i]) : HasCod(lines[i][k])])

CodLine(text) == CodLineOf(EmisorLines(text))

\* What precedes the marker with its digits on the line ln; <<>> when
\* nothing does or when it holds a caption (ORIGINAL, LIQUID...)
PreTextOf(ln) ==
    LET at == {k \in 1..Len(ln) : ln[k].k = "cod"}
        pre == SubSeq(ln, 1, (CHOOSE k \in at : \A j \in at : k <= j) - 1)
    IN  IF at = {} THEN <<>>
        ELSE IF \E k \in 1..Len(pre) : HasOriginal(pre[k]) \/ HasLiquid(pre[k])
        THEN <<>>
        ELSE pre

PreText(text) ==
    LET lines == EmisorLines(text)
        c == CodLineOf(lines)
    IN  IF c = 0 THEN <<>> ELSE PreTextOf(lines[c])

\* A line at which the scan stops: it starts with "Fecha" or holds "CUIT" or
\* "Ingresos Brutos"
StopLine(ln) ==
    StartsFecha(ln[1]) \/ \E k \in 1..Len(ln) : HasCuitOrIibb(ln[k])

\* A line the scan steps over: it holds a caption
CaptionLine(ln) ==
    \E k \in 1..Len(ln) :
        \/ IsReceptor(ln[k]) \/ HasOriginal(ln[k]) \/ HasLiquid(ln[k])
        \/ IsNumeroMark(ln[k]) \/ HasCod(ln[k])

\* The line the scan of the (up to three) lines after the marker takes: the
\* first one that is neither a stop line nor a caption, with no stop line
\* before it; <<>> when there is none.
TakenLine(text) ==
    LET lines == EmisorLines(text)
        c == CodLineOf(lines)
        scanned == {j \in (c + 1)..(c + 3) : j <= Len(lines)}
        stops == {j \in scanned : StopLine(lines[j])}
        taken == {j \in scanned :
                     /\ ~StopLine(lines[j]) /\ ~CaptionLine(lines[j])
                     /\ \A i \in stops : i > j}
    IN  IF c = 0 \/ taken = {} THEN <<>>
        ELSE lines[CHOOSE j \in taken : \A i \in taken : j <= i]

\* The tokens before the first " Fecha" that is not at the start
BeforeFecha(toks) ==
    LET at == {k \in 2..Len(toks) : StartsFecha(toks[k])}
    IN  IF at = {} THEN toks
        ELSE SubSeq(toks, 1, (CHOOSE k \in at : \A j \in at : k <= j) - 1)

\* C21 as claimed: when text that is no caption precedes the code marker on
\* its line, the name of the issuer is exactly that text (the following
\* lines are not scanned).
C21_AsClaimed ==
    pPc = "done" =>
        LET pre == PreText(pdf.text)
        IN  pre # <<>> => doc.emisor.nombre = TokTexts(pre)

\* C21: when text that is no caption precedes the code marker on its line,
\* the name of the issuer is that text followed by the line the scan of the
\* next three lines takes, if it takes one, up to a " Fecha" in it; it is
\* exactly that text when the scan takes none.  When nothing precedes the
\* marker the name is the line the scan takes, up to a " Fecha" in it.
C21_NombreConContinuacion ==
    pPc = "done" =>
        LET pre == PreText(pdf.text)
            taken == TakenLine(pdf.text)
        IN  /\ pre # <<>>
                   => doc.emisor.nombre = TokTexts(BeforeFecha(pre \o taken))
            /\ (pre = <<>> /\ taken # <<>>)
                   => doc.emisor.nombre = TokTexts(BeforeFecha(taken))

\* "ACME SA" before the marker and "ANONIMA" on the second line after it,
\* behind a caption line
C21_Witness ==
    /\ pPc = "done"
    /\ TokTexts(PreText(pdf.text)) = <<"ACME", "SA">>
    /\ Len(EmisorLines(pdf.text)) >= 3
    /\ CaptionLine(EmisorLines(pdf.text)[2])
    /\ doc.emisor.nombre = <<"ACME", "SA", "ANONIMA">>

\* the scan stops at a date line: the name is the text before the marker
C21_WitnessStop ==
    /\ pPc = "done"
    /\ PreText(pdf.text) # <<>>
    /\ Len(EmisorLines(pdf.text)) >= 3
    /\ StopLine(EmisorLines(pdf.text)[2])
    /\ EmisorLines(pdf.text)[3] = <<W("ANONIMA")>>
    /\ doc.emisor.nombre = <<"ACME", "SA">>

(***************************************************************************)
(* The categories of the items (SpecItems)                                 *)
(***************************************************************************)

\* The category is a label and no non-livestock keyword
LivestockLabel(it) == it.categoria # <<>> /\ ~IsNonLivestock(it.categoria)

\* C22: no item of the ParsedDoc, whichever strategy returned it, has a
\* category that is empty or that matches a non-livestock keyword.
C22_LivestockCategories ==
    pPc = "done" => \A i \in 1..Len(doc.items) : LivestockLabel(doc.items[i])

\* The items of the text strategy have a category that is not empty and
\* matches no keyword.
C22_TextCategories ==
    (pPc = "done" /\ textoItems.called)
        => \A i \in 1..Len(doc.items) : LivestockLabel(doc.items[i])

\* No item of the table strategy matches a keyword.
C22_TableNoKeyword ==
    pPc = "done"
        => \A i \in 1..Len(tablaItems.items) :
               ~IsNonLivestock(tablaItems.items[i].categoria)

(***************************************************************************)
(* The table the table strategy uses (SpecDoc)                             *)
(***************************************************************************)

\* The tables of the first two pages whose header row has "Categoría/Raza",
\* as their places in the order of the scan
Qualifying(tables) ==
    {i \in 1..Len(tables) :
        /\ tables[i] # <<>>
        /\ tables[i][1] # <<>>
        /\ \E k \in 1..Len(tables[i][1]) : tables[i][1][k] \in H_CATEGORIA}

\* The number of expected columns in the header row of a table
ExpectedColumns(t) == Cardinality({k \in 1..Len(t[1]) : t[1][k] \in H_SCORE})

\* What the table strategy returns when it uses the table t
ItemsOfTable(t) ==
    LET idx == Columns(t[1])
    IN  IF idx.categoria = 0 \/ idx.cabezas = 0 \/ idx.um = 0 \/ idx.bruto = 0
        THEN <<>>
        ELSE TableItems(TableRows(Tail(t), idx))

\* The table strategy used the first of the qualifying tables that no other
\* one ranks above; ranksAbove[a][b] says that table a ranks above table b
UsesFirstBest(tables, q, items, ranksAbove) ==
    \E i \in q :
        /\ \A j \in q : ~ranksAbove[j][i]
        /\ \A j \in q : j < i => ranksAbove[i][j]
        /\ items = ItemsOfTable(tables[i])

\* C23 as claimed: only the tables of the first two pages with the
\* "Categoría/Raza" column are considered; the one used has the most
\* expected columns and, among those, the most rows; among equals, the first.
C23_AsClaimed ==
    pPc = "done" =>
        LET tables == TablesOf(FirstTwo(pdf.pages))
            q == Qualifying(tables)
            above == [a \in q |-> [b \in q |->
                \/ ExpectedColumns(tables[a]) > ExpectedColumns(tables[b])
                \/ /\ ExpectedColumns(tables[a]) = ExpectedColumns(tables[b])
                   /\ Len(tables[a]) > Len(tables[b])]]
        IN  IF q = {} \/ ~pdf.tables_ok THEN tablaItems.items = <<>>
            ELSE UsesFirstBest(tables, q, tablaItems.items, above)

\* C23: only the tables of the first two pages with the "Categoría/Raza"
\* column are considered; the one used has the highest score, the score
\* being 100 times the number of expected columns plus the number of rows
\* (the header row and blank rows count); among equal scores, the first.
C23_HighestScoreFirst ==
    pPc = "done" =>
        LET tables == TablesOf(FirstTwo(pdf.pages))
            q == Qualifying(tables)
            above == [a \in q |-> [b \in q |->
                ExpectedColumns(tables[a]) * 100 + Len(tables[a])
                    > ExpectedColumns(tables[b]) * 100 + Len(tables[b])]]
        IN  IF q = {} \/ ~pdf.tables_ok THEN tablaItems.items = <<>>
            ELSE UsesFirstBest(tables, q, tablaItems.items, above)

\* two tables of equal score before a table of the third page with a higher
\* one: the first is used
C23_Witness ==
    /\ pPc = "done"
    /\ Len(pdf.pages) = 3
    /\ \A i \in 1..3 : Len(pdf.pages[i]) = 1
    /\ Score(pdf.pages[1][1]) = Score(pdf.pages[2][1])
    /\ Score(pdf.pages[3][1]) > Score(pdf.pages[1][1])
    /\ ItemsOfTable(pdf.pages[1][1]) # ItemsOfTable(pdf.pages[2][1])
    /\ ItemsOfTable(pdf.pages[3][1]) # <<>>
    /\ tablaItems.items # <<>>
    /\ tablaItems.items = ItemsOfTable(pdf.pages[1][1])

\* a table of two expected columns with many blank rows is used although a
\* table of three expected columns precedes it
C23_WitnessLong ==
    /\ pPc = "done"
    /\ Len(pdf.pages) = 1
    /\ Len(pdf.pages[1]) = 2
    /\ ExpectedColumns(pdf.pages[1][1]) = 3
    /\ ExpectedColumns(pdf.pages[1][2]) = 2
    /\ tablaItems.items = ItemsOfTable(pdf.pages[1][2])
    /\ tablaItems.items[1].categoria = <<"Toro">>

(***************************************************************************)
(* The merge loop of parse_items, parser.py:310-348, one iteration at a    *)
(* time.                                                                   *)
(***************************************************************************)

\* Largest number of data lines
MaxMergeLines == 4

\* Data lines: a category with amounts and no unit; a head count with its
\* unit; a word; a full row; a due-date line; a long number.
MergeLinePool ==
    { <<W("Novillo"), M(45000), M(9500000)>>,
      <<I(50), UM("Cabeza")>>,
      <<W("Brangus")>>,
      RowNovillo,
      <<W("VENCIMIENTO"), I(2024)>>,
      <<I(12345)>> }

MergeInit ==
    /\ mLines \in UNION { [1..n -> MergeLinePool] : n \in 0..MaxMergeLines }
    /\ mIdx = 1
    /\ mRows = <<>>
    /\ mPc = "loop"
    /\ NormIdle
    /\ CondIdle
    /\ AjIdle
    /\ BuildIdle
    /\ ItemsIdle
    /\ BatchIdle

\* The body of `while i < len(data_lines)`, parser.py:312-348
MergeStep ==
    /\ mPc = "loop"
    /\ mIdx <= Len(mLines)
    /\ mIdx' = MergeIter(mLines, mIdx, mRows).i
    /\ mRows' = MergeIter(mLines, mIdx, mRows).merged
    /\ UNCHANGED <<mLines, mPc>>
    /\ UNCHANGED <<normVars, condVars, ajVars, buildVars, itemVars, batchVars>>

\* The test of the loop fails, parser.py:312
MergeExit ==
    /\ mPc = "loop"
    /\ mIdx > Len(mLines)
    /\ mPc' = "done"
    /\ UNCHANGED <<mLines, mIdx, mRows>>
    /\ UNCHANGED <<normVars, condVars, ajVars, buildVars, itemVars, batchVars>>

MergeNext == MergeStep \/ MergeExit

SpecMerge == MergeInit /\ [][MergeNext]_vars

\* The loop is the code of one sequential call: it keeps running.
SpecMergeFair == SpecMerge /\ WF_vars(MergeNext)

(***************************************************************************)
(* Properties of the merge loop (SpecMerge, SpecMergeFair)                 *)
(***************************************************************************)

\* The current line, the next one ("" when there is none) and the third
Cur == mLines[mIdx]
Nxt == IF mIdx + 1 <= Len(mLines) THEN mLines[mIdx + 1] ELSE <<>>
Third == IF mIdx + 2 <= Len(mLines) THEN mLines[mIdx + 2] ELSE <<>>

\* (a) the current line has no unit of measure ("Kg Vivo", "Cabeza") and
\* the next line has one
RuleA == ~HasUm(Cur) /\ HasUm(Nxt)

\* the third line has no monetary token and contains a letter
ThirdAbsorbed == Third # <<>> /\ money_tokens(Third) = <<>> /\ HasLetter(Third)

\* (b) a previous merged row exists and the current line has fewer than 3
\* digits and no monetary token
RuleB == mRows # <<>> /\ DigitCount(Cur) < 3 /\ money_tokens(Cur) = <<>>

\* (c) as the claim words it: the next line contains a letter and has no
\* monetary token, the current line has at least one
RuleC_claimed ==
    Nxt # <<>> /\ HasLetter(Nxt) /\ money_tokens(Nxt) = <<>> /\ money_tokens(Cur) # <<>>

\* (c) with the exception of parser.py:343: the next line does not start
\* with "Datos Adicionales" or "VENCIMIENTO"
RuleC == RuleC_claimed /\ ~StartsDatosOrVencimiento(Nxt)

\* The effect of one iteration under the precedence (a), (b), (c), alone,
\* with ruleC the condition of (c)
Precedence(ruleC) ==
    /\ RuleA =>
           /\ mRows' = Append(mRows, Cur \o Nxt \o
                                     (IF ThirdAbsorbed THEN Third ELSE <<>>))
           /\ mIdx' = mIdx + (IF ThirdAbsorbed THEN 3 ELSE 2)
    /\ (~RuleA /\ RuleB) =>
           /\ mRows' = [mRows EXCEPT ![Len(mRows)] = @ \o Cur]
           /\ mIdx' = mIdx + 1
    /\ (~RuleA /\ ~RuleB /\ ruleC) =>
           /\ mRows' = Append(mRows, Cur \o Nxt)
           /\ mIdx' = mIdx + 2
    /\ (~RuleA /\ ~RuleB /\ ~ruleC) =>
           /\ mRows' = Append(mRows, Cur)
           /\ mIdx' = mIdx + 1

\* C24 as claimed: every iteration applies (a), else (b), else (c), else
\* makes the line a row on its own, (c) holding whenever the next line
\* contains a letter, has no monetary token and the current line has one.
C24_AsClaimed ==
    [][(mPc = "loop" /\ mIdx <= Len(mLines)) => Precedence(RuleC_claimed)]_mergeVars

\* C24: every iteration applies (a), else (b), else (c), else makes the
\* line a row on its own, (c) holding when the next line contains a letter,
\* has no monetary token, does not start with "Datos Adicionales" or
\* "VENCIMIENTO", and the current line has a monetary token.
C24_MergePrecedence ==
    [][(mPc = "loop" /\ mIdx <= Len(mLines)) => Precedence(RuleC)]_mergeVars

\* a full row followed by a due-date line and a word: the row stays alone,
\* the due-date line becomes a row, the word joins it under (b)
C24_Witness ==
    /\ mPc = "done"
    /\ Len(mLines) = 3
    /\ money_tokens(mLines[1]) # <<>>
    /\ StartsDatosOrVencimiento(mLines[2])
    /\ mRows = <<mLines[1], mLines[2] \o mLines[3]>>

\* The lines a..b joined into one row
RECURSIVE JoinRow(_, _, _)
JoinRow(lines, a, b) ==
    IF a > b THEN <<>> ELSE lines[a] \o JoinRow(lines, a + 1, b)

\* The k-th smallest element of a set of numbers, 0 for k = 0
Kth(S, k) ==
    IF k = 0 THEN 0 ELSE CHOOSE x \in S : Cardinality({y \in S : y <= x}) = k

\* The rows are the first n lines cut into consecutive runs, in order: each
\* of these lines is in exactly one row.
CutIntoRows(lines, n, rows) ==
    \E cuts \in SUBSET (1..n) :
        /\ n > 0 => n \in cuts
        /\ Cardinality(cuts) = Len(rows)
        /\ \A k \in 1..Len(rows) :
               rows[k] = JoinRow(lines, Kth(cuts, k - 1) + 1, Kth(cuts, k))

\* C25: the merge pass conserves lines: at every point of the loop the rows
\* merged so far are the lines read so far, cut into consecutive runs in the
\* original order, and there are at most as many rows as lines; when the
\* loop ends every data line has been read.
C25_LinesConserved ==
    mPc \in {"loop", "done"} =>
        /\ mIdx <= Len(mLines) + 1
        /\ Len(mRows) <= mIdx - 1
        /\ CutIntoRows(mLines, mIdx - 1, mRows)
        /\ mPc = "done" => mIdx = Len(mLines) + 1

\* three lines merged into one row under (a), then a row on its own
C25_Witness ==
    /\ mPc = "done"
    /\ Len(mLines) = 4
    /\ Len(mRows) = 2
    /\ mRows[1] = mLines[1] \o mLines[2] \o mLines[3]
    /\ mRows[2] = mLines[4]
    /\ mLines[1] # mLines[3]

\* C26: the merge loop terminates: every iteration moves the index forward
\* by 1, 2 or 3, never beyond the place after the last line, and the loop
\* ends.
C26_LoopTerminates ==
    /\ [][(mPc = "loop" /\ mIdx <= Len(mLines))
              => (mIdx' - mIdx \in 1..3 /\ mIdx' <= Len(mLines) + 1)]_mergeVars
    /\ <>(mPc = "done")

\* the loop has ended on the longest list after three iterations
C26_Witness ==
    /\ mPc = "done"
    /\ Len(mLines) = MaxMergeLines
    /\ mIdx = Len(mLines) + 1
    /\ Len(mRows) = 3

(***************************************************************************)
(* parse_pdf, parser.py:612-615: the type code of the header, the          *)
(* adjustment and the internal type are computed from the same text.       *)
(***************************************************************************)

\* The type codes that tipo_interno_por_cod knows, rules.py:78-96
KnownCods == {180, 183, 185, 186, 188, 190, 191}

\* The codes of the test documents: the known ones, no code at all (0), a
\* code between two known ones and one beyond them
CodPool == KnownCods \cup {0, 187, 192}

CreditCodes == {"CN", "LA", "LN"}

TipoInit ==
    /\ ajTexto \in WordTexts(AjusteWords, MaxAjusteWords)
    /\ ajuste = None
    /\ ajPc = "start"
    /\ NormIdle
    /\ CondIdle
    /\ BuildIdle
    /\ ItemsIdle
    /\ BatchIdle
    /\ MergeIdle

\* ajuste = detectar_ajuste(text); tipo_interno = tipo_interno_por_cod(cod_arca, text)
ClasificarDoc ==
    /\ ajPc = "start"
    /\ \E cod_arca \in CodPool :
           ajuste' = [cod_arca |-> cod_arca,
                      ajuste |-> detectar_ajuste(ajTexto),
                      tipo_interno |-> tipo_interno_por_cod(cod_arca, ajTexto)]
    /\ ajPc' = "done"
    /\ UNCHANGED <<ajTexto, normVars, condVars, buildVars, itemVars, batchVars, mergeVars>>

TipoNext == ClasificarDoc

SpecTipo == TipoInit /\ [][TipoNext]_vars

(***************************************************************************)
(* C27: for a document with a known type code (180, 183, 185, 186, 188,    *)
(* 190, 191) the internal type is a credit code (CN, LA, LN) exactly when  *)
(* the sign multiplier of the detected adjustment is -1; for any other     *)
(* code the internal type is "OTRO" whatever the adjustment.               *)
(***************************************************************************)
C27_TipoMatchesSign ==
    ajPc = "done" =>
        IF ajuste.cod_arca \in KnownCods
        THEN ajuste.tipo_interno \in CreditCodes
                 <=> signo_montos(ajuste.ajuste) = -1
        ELSE ajuste.tipo_interno = "OTRO"

\* A document of code 190 whose text holds "AJUSTE", a credit and a debit
\* keyword has been classified as a credit note with sign -1.
C27_Witness ==
    /\ ajPc = "done"
    /\ ajuste.cod_arca = 190
    /\ HasCredito(Upper(ajTexto))
    /\ HasDebito(Upper(ajTexto))
    /\ ajuste.tipo_interno = "CN"
    /\ signo_montos(ajuste.ajuste) = -1

\* A document of an unknown code with a credit adjustment is "OTRO".
C27_WitnessOtro ==
    /\ ajPc = "done"
    /\ ajuste.cod_arca = 187
    /\ signo_montos(ajuste.ajuste) = -1
    /\ ajuste.tipo_interno = "OTRO"

(***************************************************************************)
(* build_outputs on documents that vary the VAT rate of the items and the  *)
(* totals the rate falls back to.                                          *)
(***************************************************************************)

\* Items with rate 10.5, rate 21, rate 0 and no rate; with and without
\* VAT amount
LibroItemPool ==
    { ItemHacienda("Novillo", 5, 0, "Cabeza", 45000, 225000, Some(1050), Some(23625)),
      ItemHacienda("Toro", 1, 0, "Cabeza", 100000, 100000, Some(2100), Some(21000)),
      ItemHacienda("Vaca", 2, 0, "Cabeza", 30000, 60000, Some(2000), NoNumber),
      ItemHacienda("Oveja", 4, 0, "Cabeza", 1000, 4000, Some(0), Some(0)),
      ItemHacienda("Ternero", 3, 0, "Cabeza", 20000, 60000, NoNumber, NoNumber),
      ItemHacienda("Vaquillona", 1, 0, "Cabeza", 50000, 50000, NoNumber, Some(5250)) }

\* Totals: none; VAT at 10.5 %; VAT at 19.9996 %, which rounds to 20.000;
\* VAT at 0.0004 %, which rounds to 0.000
LibroTotales ==
    { [importe_bruto |-> 0, iva_bruto |-> 0],
      [importe_bruto |-> 200000, iva_bruto |-> 21000],
      [importe_bruto |-> 250000, iva_bruto |-> 49999],
      [importe_bruto |-> 250000, iva_bruto |-> 1] }

\* The sign of the amounts depends on es_ajuste and sentido only
LibroAjustes == { a \in Ajustes : a.tipo = "MONETARIO" }

LibroDocs ==
    { [cod_arca |-> c, tipo_interno |-> "OTRO", ajuste |-> a, items |-> its,
       importe_bruto |-> t.importe_bruto, iva_bruto |-> t.iva_bruto,
       total_gastos |-> 0, iva_gastos |-> 0] :
          c \in CodArcas, a \in LibroAjustes, t \in LibroTotales,
          its \in UNION { [1..n -> LibroItemPool] : n \in 0..MaxBuildItems } }

LibroInit ==
    /\ bDoc \in LibroDocs
    /\ bRole \in Roles
    /\ s_m = 1
    /\ s_h = 1
    /\ ventas_rows = <<>>
    /\ compras_rows = <<>>
    /\ libro_ventas_rows = <<>>
    /\ bPc = "start"
    /\ NormIdle
    /\ CondIdle
    /\ AjIdle
    /\ ItemsIdle
    /\ BatchIdle
    /\ MergeIdle

SpecLibro == LibroInit /\ [][BuildNext]_vars

\* The bucket the claim gives to a rate (thousandths of a percent point)
RateBucket(pct) ==
    IF pct >= 20000 THEN "21"
    ELSE IF pct > 0 THEN "10.5"
    ELSE IF pct = 0 THEN "exento"
    ELSE "none"

\* The gross amounts of the items of d whose rate falls in one of the
\* buckets, added up
RECURSIVE SumBrutoIn(_, _, _)
SumBrutoIn(items, d, buckets) ==
    IF items = <<>> THEN 0
    ELSE (IF RateBucket(ItemPct(Head(items), d)) \in buckets
          THEN Head(items).bruto ELSE 0)
             + SumBrutoIn(Tail(items), d, buckets)

C29_WitnessExento ==
    /\ bPc = "done"
    /\ Len(libro_ventas_rows) = 1
    /\ bDoc.importe_bruto = 0
    /\ Len(bDoc.items) = 2
    /\ bDoc.items[1].iva_pct = Some(0)
    /\ ~bDoc.items[2].iva_pct.some
    /\ libro_ventas_rows[1].Exento = 64000 * s_m

====
